---------------------------- MODULE Spec2Model ----------------------------
(***************************************************************************)
(* Local object storage of a NeoFS node: the storage engine's Exists       *)
(* fan-out over shards, the metabase (header buckets, parent/root/small    *)
(* indexes, graveyard, lockers) with its batch Delete and parent reference *)
(* counting, and the shard's metabase refill from the blob store.          *)
(***************************************************************************)
EXTENDS Integers, Sequences, FiniteSets, TLC

(***************************************************************************)
(* Bounds of the model.                                                    *)
(***************************************************************************)
\* longest address batch handed to one metabase Delete
MaxBatch == 2
\* most members in the payload of the stored tombstone object
MaxMembers == 2
\* most target addresses of one Inhume or Lock call
MaxTargets == 2
\* number of shards the engine iterates over
NumShards == 3
\* how many times the metabase is refilled from the blob store in one run
MaxRefills == 2
\* how many GC sweeps or epoch handlers run in one life of a shard
MaxSweeps == 2
\* how many objects the write cache stages before it refuses admission
MaxCache == 1
errorThreshold == 2
MaxErrors == 3
MaxEpoch == 2
SweepBatch == 1
\* calls of Write on one localTarget
MaxWrites == 2

(***************************************************************************)
(* The objects of the model.  An address is <<container id, object id>>.   *)
(* o1 is a regular top-level object, o2 and o3 are the physically stored   *)
(* children of the virtual (never stored) parent p, t is a tombstone       *)
(* object, l a lock object; container c2 holds one more regular object     *)
(* whose object id equals o1's.                                            *)
(***************************************************************************)
NoAddr == <<>>

ParentAddr == <<"c1", "p">>
TombAddr == <<"c1", "t">>
LockAddr == <<"c1", "l">>

PhyAddrs ==
  {<<"c1", "o1">>, <<"c1", "o2">>, <<"c1", "o3">>, TombAddr, LockAddr, <<"c2", "o1">>}

Addrs == PhyAddrs \cup {ParentAddr}

MemberIDs == {"o1", "o2", "p", "t"}

KnownTypes == {"Regular", "Tombstone", "StorageGroup", "Lock"}

TypeOf(a) ==
  IF a = TombAddr THEN "Tombstone" ELSE IF a = LockAddr THEN "Lock" ELSE "Regular"

ParentOf(a) ==
  IF a \in {<<"c1", "o2">>, <<"c1", "o3">>} THEN ParentAddr ELSE NoAddr

\* objects whose blob lives in the small-blob pool (they carry a blobovnicza id)
SmallAddrs == PhyAddrs \ {<<"c1", "o1">>}

\* the header of the object stored at (or, for the parent, reconstructed for) a
Header(a) == [addr |-> a, typ |-> TypeOf(a), par |-> ParentOf(a)]

NoObj == [addr |-> NoAddr, typ |-> "none", par |-> NoAddr]

VARIABLES
  blobs,     \* blob store: the addresses whose object is persisted
  payload,   \* member object ids in the payload of the tombstone object t
  db,        \* metabase: the record of its buckets
  last,      \* the last completed operation and its outcome
  rf,        \* refill in progress: what the blob-store iteration still yields
  eng,       \* engine Exists in progress
  shd,       \* shard data path: write cache, blob sub-stores, flush, last result
  lc,        \* shard life cycle: Open, Init, Close and the GC worker
  gc,        \* GC worker: epoch events, handlers in flight, what is due
  tgt,       \* localTarget of the put service: header, written payload, result
  acl        \* ACL service: the request in hand, its put stream, its outcome

vars == <<blobs, payload, db, last, rf, eng, shd, lc, gc, tgt, acl>>

(***************************************************************************)
(* Metabase buckets.  A key/value bucket is a function whose domain is the *)
(* set of keys present; a marker bucket is the set of its keys.            *)
(***************************************************************************)
EmptyBucket == [x \in {} |-> NoAddr]

EmptyDB ==
  [primary |-> {}, tombstone |-> {}, storagegroup |-> {}, lockers |-> {},
   parent |-> EmptyBucket, root |-> {}, small |-> {},
   graveyard |-> EmptyBucket, toMove |-> {}, fkbt |-> {}, locked |-> EmptyBucket]

BucketDelete(b, k) == [x \in (DOMAIN b) \ {k} |-> b[x]]

BucketPut(b, k, v) == [x \in (DOMAIN b) \cup {k} |-> IF x = k THEN v ELSE b[x]]

Headers(d) == d.primary \cup d.tombstone \cup d.storagegroup \cup d.lockers

InGraveyard(d, a) == a \in DOMAIN d.graveyard

objectLocked(d, a) == a \in DOMAIN d.locked /\ d.locked[a] # {}


\* shard.IsErrNotFound
IsErrNotFound(err) == err = "ObjectNotFound"

\* IsErrRemoved testing for the error that IsErrNotFound tests for
IsErrRemovedAsNotFound(err) == err = "ObjectNotFound"

\* shard.IsErrRemoved
IsErrRemoved(err) == err = "AlreadyRemoved"

(***************************************************************************)
(* Metabase reads.                                                         *)
(***************************************************************************)
\* DB.get(tx, addr, checkGraveyard, raw): the header stored for addr; for the
\* address of a virtual parent the parent header rebuilt from the inline copy
\* of a child, or SplitInfoError when raw is set.
dbGet(d, a, checkGraveyard, raw) ==
  IF checkGraveyard /\ InGraveyard(d, a)
    THEN [obj |-> NoObj, err |-> "AlreadyRemoved"]
  ELSE IF a \in Headers(d)
    THEN [obj |-> Header(a), err |-> "nil"]
  ELSE IF a \in DOMAIN d.parent
    THEN IF raw
           THEN [obj |-> NoObj, err |-> "SplitInfoError"]
           ELSE LET lst == d.parent[a]
                    child == lst[Len(lst)]
                IN  [obj |-> Header(ParentOf(child)), err |-> "nil"]
  ELSE [obj |-> NoObj, err |-> "ObjectNotFound"]

\* Metabase Exists: AlreadyRemoved for a graveyard address, else whether any
\* index knows the address.
dbExists(d, a) ==
  IF InGraveyard(d, a) THEN [exists |-> FALSE, err |-> "AlreadyRemoved"]
  ELSE [exists |-> (a \in Headers(d) \/ a \in DOMAIN d.parent), err |-> "nil"]

\* Metabase Head(addr, raw): Get with the payload elided.
dbHead(d, a, raw) == dbGet(d, a, TRUE, raw)

\* Metabase Select over a container: every discoverable address of the
\* attribute index, optionally restricted to the root bucket.
dbSelect(d, cid, rootOnly) ==
  {a \in d.fkbt : /\ a[1] = cid
                  /\ ~InGraveyard(d, a)
                  /\ (rootOnly => a \in d.root)}

(***************************************************************************)
(* Metabase writes other than Delete.                                      *)
(***************************************************************************)
TypeBucketPut(d, a, typ) ==
  CASE typ = "Regular" -> [d EXCEPT !.primary = @ \cup {a}]
    [] typ = "Tombstone" -> [d EXCEPT !.tombstone = @ \cup {a}]
    [] typ = "StorageGroup" -> [d EXCEPT !.storagegroup = @ \cup {a}]
    [] typ = "Lock" -> [d EXCEPT !.lockers = @ \cup {a}]

\* Metabase Put(object, blob_ref): AlreadyRemoved without mutation for a
\* graveyard address; otherwise the header bucket of the type, small, root,
\* parent and the attribute index, for the object and for its inline parent.
dbPut(d, a, hasBlzID) ==
  IF InGraveyard(d, a) THEN [db |-> d, err |-> "AlreadyRemoved"]
  ELSE IF a \in Headers(d)
    THEN [db |-> IF hasBlzID THEN [d EXCEPT !.small = @ \cup {a}] ELSE d,
          err |-> "nil"]
  ELSE
    LET h == Header(a)
        d1 == IF h.par = NoAddr THEN d
              ELSE [d EXCEPT !.root = @ \cup {h.par}, !.fkbt = @ \cup {h.par}]
        d2 == TypeBucketPut(d1, a, h.typ)
        d3 == IF hasBlzID THEN [d2 EXCEPT !.small = @ \cup {a}] ELSE d2
        d4 == IF h.typ = "Regular" /\ h.par = NoAddr
                THEN [d3 EXCEPT !.root = @ \cup {a}] ELSE d3
        d5 == IF h.par = NoAddr THEN d4
              ELSE [d4 EXCEPT !.parent =
                      BucketPut(@, h.par,
                                IF h.par \in DOMAIN @ THEN Append(@[h.par], a)
                                                      ELSE <<a>>)]
    IN  [db |-> [d5 EXCEPT !.fkbt = @ \cup {a}], err |-> "nil"]

\* Inhume that buries the unlocked targets although another target is locked
dbInhumeUnlocked(d, tomb, targets) ==
  [db |-> [d EXCEPT !.graveyard =
             [x \in (DOMAIN @) \cup {t \in targets : ~objectLocked(d, t)} |->
                IF x \in targets THEN tomb ELSE @[x]]],
   err |-> IF \E a \in targets : objectLocked(d, a) THEN "ObjectLocked" ELSE "nil"]

\* Metabase Inhume(tomb, targets): ObjectLocked without mutation when a target
\* is locked; otherwise every target enters the graveyard with value tomb.
dbInhume(d, tomb, targets) ==
  IF \E a \in targets : objectLocked(d, a)
    THEN [db |-> d, err |-> "ObjectLocked"]
    ELSE [db |-> [d EXCEPT !.graveyard =
                    [x \in (DOMAIN @) \cup targets |->
                       IF x \in targets THEN tomb ELSE @[x]]],
          err |-> "nil"]

\* Metabase Lock(locker, targets): every target gets locker among its lockers.
dbLock(d, locker, targets) ==
  [d EXCEPT !.locked =
     [x \in (DOMAIN @) \cup targets |->
        IF x \in targets
          THEN (IF x \in DOMAIN @ THEN @[x] ELSE {}) \cup {locker}
          ELSE @[x]]]

\* Metabase Reset: wipes every bucket.
dbReset(d) == EmptyDB

(***************************************************************************)
(* Metabase Delete: the batch transaction with its per-parent reference    *)
(* counter.                                                                *)
(***************************************************************************)
\* the list without the first element equal to v
RemoveFirst(lst, v) ==
  LET idx == {i \in 1..Len(lst) : lst[i] = v}
  IN  IF idx = {} THEN lst
      ELSE LET i == CHOOSE j \in idx : \A k \in idx : j <= k
           IN  SubSeq(lst, 1, i - 1) \o SubSeq(lst, i + 1, Len(lst))

\* parentLength: amount of available children from the parent index
parentLength(d, addr) ==
  IF addr \in DOMAIN d.parent THEN Len(d.parent[addr]) ELSE 0

\* delListIndexItem on the parent bucket: drop val from the list under key,
\* and drop the key when the list becomes empty
delListIndexItem(d, key, val) ==
  IF key \notin DOMAIN d.parent \/ Len(d.parent[key]) = 0 THEN d
  ELSE LET lst == RemoveFirst(d.parent[key], val)
       IN  IF Len(lst) = 0
             THEN [d EXCEPT !.parent = BucketDelete(@, key)]
             ELSE [d EXCEPT !.parent = BucketPut(@, key, lst)]

\* delFKBTIndexItem on the attribute index
delFKBTIndexItem(d, a) == [d EXCEPT !.fkbt = @ \ {a}]

\* a delUniqueIndexes that leaves the header of the object in its type bucket
delUniqueIndexesKeepHeader(d, obj, isParent) ==
  IF ~isParent /\ obj.typ \notin KnownTypes
    THEN [db |-> d, err |-> "ErrUnknownObjectType"]
  ELSE
    LET a == obj.addr
        d1 == IF ~isParent THEN d ELSE [d EXCEPT !.parent = BucketDelete(@, a)]
    IN  [db |-> [d1 EXCEPT !.small = @ \ {a}, !.root = @ \ {a}, !.toMove = @ \ {a}],
         err |-> "nil"]

delUniqueIndexes(d, obj, isParent) ==
  IF ~isParent /\ obj.typ \notin KnownTypes
    THEN [db |-> d, err |-> "ErrUnknownObjectType"]
  ELSE
    LET a == obj.addr
        d1 == IF ~isParent
                THEN CASE obj.typ = "Regular" -> [d EXCEPT !.primary = @ \ {a}]
                       [] obj.typ = "Tombstone" -> [d EXCEPT !.tombstone = @ \ {a}]
                       [] obj.typ = "StorageGroup" -> [d EXCEPT !.storagegroup = @ \ {a}]
                       [] obj.typ = "Lock" -> [d EXCEPT !.lockers = @ \ {a}]
                ELSE [d EXCEPT !.parent = BucketDelete(@, a)]
    IN  [db |-> [d1 EXCEPT !.small = @ \ {a}, !.root = @ \ {a}, !.toMove = @ \ {a}],
         err |-> "nil"]

\* deleteObject after delUniqueIndexes returned u: the list and FKBT indexes
deleteObjectIndexes(u, obj) ==
  IF u.err # "nil" THEN [db |-> u.db, err |-> "can't remove unique indexes"]
  ELSE [db |-> delFKBTIndexItem(
                 IF obj.par = NoAddr THEN u.db
                 ELSE delListIndexItem(u.db, obj.par, obj.addr),
                 obj.addr),
        err |-> "nil"]

deleteObject(d, obj, isParent) ==
  deleteObjectIndexes(delUniqueIndexes(d, obj, isParent), obj)

\* countReference reading all after the object left the parent's list
countReferenceAfterRemoval(d, refs, par) ==
  IF par = NoAddr THEN refs
  ELSE IF par \in DOMAIN refs THEN [refs EXCEPT ![par].cur = @ + 1]
  ELSE BucketPut(refs, par,
                 [all |-> parentLength(d, par) - 1, cur |-> 1, obj |-> Header(par)])

\* countReference reading all again at every object of the parent
countReferenceRereadAll(d, refs, par) ==
  IF par = NoAddr THEN refs
  ELSE IF par \in DOMAIN refs
    THEN [refs EXCEPT ![par].cur = @ + 1, ![par].all = parentLength(d, par)]
  ELSE BucketPut(refs, par,
                 [all |-> parentLength(d, par), cur |-> 1, obj |-> Header(par)])

\* the reference counter after an object with parent par was found: all is
\* read when the parent is first seen, cur counts the objects seen
countReference(d, refs, par) ==
  IF par = NoAddr THEN refs
  ELSE IF par \in DOMAIN refs THEN [refs EXCEPT ![par].cur = @ + 1]
  ELSE BucketPut(refs, par,
                 [all |-> parentLength(d, par), cur |-> 1, obj |-> Header(par)])

deleteResult(r, refs) == [db |-> r.db, refs |-> refs, err |-> r.err]

\* DB.delete after the graveyard record was removed (d) and db.get returned g
deleteGot(d, g, refs) ==
  IF g.err = "ObjectNotFound" THEN [db |-> d, refs |-> refs, err |-> "nil"]
  ELSE IF g.err # "nil" THEN [db |-> d, refs |-> refs, err |-> g.err]
  ELSE deleteResult(deleteObject(d, g.obj, FALSE),
                    countReference(d, refs, g.obj.par))

deleteStored(d, addr, refs) == deleteGot(d, dbGet(d, addr, FALSE, TRUE), refs)

\* a DB.delete that leaves the graveyard record of the address in place
deleteKeepGraveyard(d, addr, refs) == deleteStored(d, addr, refs)

\* DB.delete: one address of the batch; refs is the batch's reference counter
delete(d, addr, refs) ==
  deleteStored([d EXCEPT !.graveyard = BucketDelete(@, addr)], addr, refs)

\* the first loop of deleteGroup, over addrs[i..]; r is what DB.delete
\* returned for addrs[i]
RECURSIVE deleteLoop(_, _, _, _)
RECURSIVE deleteNext(_, _, _)
deleteNext(r, addrs, i) ==
  IF r.err # "nil"
    THEN [db |-> r.db, refs |-> r.refs, err |-> r.err, done |-> i - 1]
    ELSE deleteLoop(r.db, addrs, i + 1, r.refs)

deleteLoop(d, addrs, i, refs) ==
  IF i > Len(addrs) THEN [db |-> d, refs |-> refs, err |-> "nil", done |-> i - 1]
  ELSE deleteNext(delete(d, addrs[i], refs), addrs, i)

\* the second loop of deleteGroup, over the counters todo: remove every parent
\* with cur = all (removed lists the parents removed, one item per removal)
RECURSIVE deleteParents(_, _, _, _)
RECURSIVE deleteParent(_, _, _, _, _)
deleteParent(r, refs, k, todo, removed) ==
  IF r.err # "nil" THEN [db |-> r.db, err |-> r.err, removed |-> removed]
  ELSE deleteParents(r.db, refs, todo \ {k}, Append(removed, k))

deleteParents(d, refs, todo, removed) ==
  IF todo = {} THEN [db |-> d, err |-> "nil", removed |-> removed]
  ELSE LET k == CHOOSE x \in todo : TRUE
       IN  IF refs[k].cur = refs[k].all
             THEN deleteParent(deleteObject(d, refs[k].obj, TRUE), refs, k, todo,
                               removed)
             ELSE deleteParents(d, refs, todo \ {k}, removed)

deleteGroupEnd(l, r) ==
  [db |-> r.db, refs |-> l.refs, err |-> r.err, done |-> l.done,
   removed |-> r.removed]

deleteGroupParents(l) ==
  IF l.err # "nil"
    THEN [db |-> l.db, refs |-> l.refs, err |-> l.err, done |-> l.done,
          removed |-> <<>>]
    ELSE deleteGroupEnd(l, deleteParents(l.db, l.refs, DOMAIN l.refs, <<>>))

deleteGroup(d, addrs) == deleteGroupParents(deleteLoop(d, addrs, 1, EmptyBucket))

\* an Update that keeps what the function did before it returned an error
boltUpdateNoRollback(d, r) == r

\* bolt's Update: commits what the function did when it returned nil and
\* rolls back to d when it returned an error
boltUpdate(d, r) == IF r.err = "nil" THEN r ELSE [r EXCEPT !.db = d]


(***************************************************************************)
(* The metabase as a state machine: Put, Inhume, Lock, ToMoveIt and Delete *)
(* applied in any order to one metabase.                                   *)
(***************************************************************************)
\* objects put, and addresses inhumed, locked and deleted, in this machine
MetaObjs == {<<"c1", "o1">>, <<"c1", "o2">>, <<"c1", "o3">>}
InhumeAddrs == {<<"c1", "o1">>, <<"c1", "o2">>, ParentAddr}
LockTargets == {<<"c1", "o1">>}
DelAddrs == {<<"c1", "o1">>, <<"c1", "o2">>, <<"c1", "o3">>, ParentAddr}
MoveAddrs == {<<"c1", "o2">>}

Range(q) == {q[i] : i \in 1..Len(q)}

SetsUpTo(S, n) == {T \in SUBSET S : T # {} /\ Cardinality(T) <= n}

RECURSIVE SeqsOfLen(_, _)
SeqsOfLen(S, n) ==
  IF n = 0 THEN {<<>>}
  ELSE {Append(q, x) : q \in SeqsOfLen(S, n - 1), x \in S}

Batches == UNION {SeqsOfLen(DelAddrs, n) : n \in 1..MaxBatch}

NoLast ==
  [op |-> "none", err |-> "nil", addrs |-> {}, tomb |-> NoAddr, targets |-> {},
   done |-> 0, dirty |-> FALSE, refs |-> EmptyBucket, removed |-> <<>>]

NoRefill == [pc |-> "idle", todo |-> {}, n |-> 0, snap |-> EmptyDB, err |-> "nil"]

NoID == ""

\* the split info carried by a SplitInfoError
NoSplitInfo == [splitID |-> NoID, lastPart |-> NoID, link |-> NoID]

\* the split id set in the header of a child of the split object
SplitIDOf(a) == IF ParentOf(a) # NoAddr THEN "S" ELSE NoID

\* payload of at most smallSize bytes
IsSmall(a) == a \in SmallAddrs

\* the object with address a: its header and its payload bytes
Object(a) ==
  [hdr |-> Header(a), payload |-> <<a[2], IF IsSmall(a) THEN "small" ELSE "big">>]

NoObject == [hdr |-> NoObj, payload |-> <<>>]

\* Object.CutPayload
CutPayload(o) == [o EXCEPT !.payload = <<>>]

\* what a shard read returns: an object, or an error (with its split info)
Found(o) == [obj |-> o, err |-> "nil", si |-> NoSplitInfo, exists |-> FALSE]

Failed(e) == [obj |-> NoObject, err |-> e, si |-> NoSplitInfo, exists |-> FALSE]

NoResult == Found(NoObject)

\* a shard without write cache that stores nothing
NoShard ==
  [hasWC |-> FALSE, cache |-> {}, pool |-> {}, tree |-> {}, put |-> {},
   fl |-> [pc |-> "idle", addr |-> NoAddr],
   op |-> "none", addr |-> NoAddr, raw |-> FALSE, res |-> NoResult,
   mode |-> "ReadWrite", errs |-> 0, calls |-> 0]

\* a shard that was constructed and not opened
NoLife ==
  [hasWC |-> FALSE, pc |-> "new", todo |-> <<>>, opened |-> <<>>, closed |-> <<>>,
   comp |-> [c \in {"blobStor", "metaBase", "writeCache"} |-> "new"],
   gc |-> "none", err |-> "nil", log |-> <<>>, refill |-> FALSE, inited |-> <<>>,
   snap |-> EmptyDB]

\* an object of the put stream: its id and its payload bytes
NoStreamObj == [id |-> NoID, payload |-> <<>>]

\* a localTarget before WriteHeader; writes lists the slices passed to Write
\* since WriteHeader, put is the object handed to ObjectStorage.Put
NoTarget ==
  [pc |-> "new", obj |-> NoStreamObj, payload |-> <<>>, writes |-> <<>>,
   put |-> NoStreamObj, ids |-> NoID, err |-> "nil"]

\* a request to the ACL service: what its parts and the services it asks
\* answer
NoACLIn ==
  [part |-> "none", cid |-> TRUE, owner |-> TRUE, cnr |-> "ok", role |-> "User",
   token |-> "none", basic |-> TRUE, sticky |-> TRUE, eacl |-> TRUE, next |-> "ok",
   respEacl |-> TRUE]

\* the ACL service with no request in hand and no put stream
NoACL ==
  [pc |-> "idle", stream |-> "none", op |-> "none", in |-> NoACLIn,
   called |-> FALSE, resp |-> "nil", err |-> "nil"]

\* a GC worker that was not started
NoGC ==
  [epoch |-> 0, queue |-> <<>>, pc |-> "listen", cur |-> 0, tasks |-> {},
   cancelled |-> {}, exp |-> EmptyBucket, due |-> {}]

Shards == 1..NumShards

NoAnswer == [res |-> "nil", err |-> "nil"]

NoEngine ==
  [pc |-> "idle", ans |-> <<>>, order |-> <<>>, i |-> 0, alreadyRemoved |-> FALSE,
   exists |-> FALSE, stop |-> FALSE, errs |-> <<>>, visited |-> <<>>,
   result |-> NoAnswer]

InitMeta ==
  /\ tgt = NoTarget
  /\ acl = NoACL
  /\ gc = NoGC
  /\ blobs = {}
  /\ payload = {}
  /\ db = EmptyDB
  /\ last = NoLast
  /\ rf = NoRefill
  /\ eng = NoEngine
  /\ shd = NoShard
  /\ lc = NoLife

MetaPutDone(a, r) ==
  /\ db' = r.db
  /\ last' = [NoLast EXCEPT !.op = "Put", !.err = r.err, !.addrs = {a}]
  /\ UNCHANGED <<blobs, payload, rf, eng, shd, lc, gc, tgt, acl>>

MetaPut(a) == MetaPutDone(a, dbPut(db, a, a \in SmallAddrs))

MetaInhumeDone(tomb, targets, r) ==
  /\ db' = r.db
  /\ last' = [NoLast EXCEPT !.op = "Inhume", !.err = r.err, !.tomb = tomb,
                            !.targets = targets]
  /\ UNCHANGED <<blobs, payload, rf, eng, shd, lc, gc, tgt, acl>>

MetaInhume(tomb, targets) == MetaInhumeDone(tomb, targets, dbInhume(db, tomb, targets))

MetaLock(locker, targets) ==
  /\ db' = dbLock(db, locker, targets)
  /\ last' = [NoLast EXCEPT !.op = "Lock", !.tomb = locker, !.targets = targets]
  /\ UNCHANGED <<blobs, payload, rf, eng, shd, lc, gc, tgt, acl>>

MetaToMoveIt(a) ==
  /\ a \in Headers(db)
  /\ db.toMove = {}
  /\ db' = [db EXCEPT !.toMove = @ \cup {a}]
  /\ last' = [NoLast EXCEPT !.op = "ToMoveIt", !.addrs = {a}]
  /\ UNCHANGED <<blobs, payload, rf, eng, shd, lc, gc, tgt, acl>>

\* u is what deleteGroup did inside the transaction, r what Delete committed
MetaDeleted(addrs, u, r) ==
  /\ db' = r.db
  /\ last' = [NoLast EXCEPT !.op = "Delete", !.err = r.err, !.addrs = Range(addrs),
                            !.done = r.done, !.dirty = (u.db # db),
                            !.refs = r.refs, !.removed = r.removed]
  /\ UNCHANGED <<blobs, payload, rf, eng, shd, lc, gc, tgt, acl>>

\* DB.Delete: deleteGroup inside one Update transaction
MetaDeleteTx(addrs, u) == MetaDeleted(addrs, u, boltUpdate(db, u))

MetaDelete(addrs) == MetaDeleteTx(addrs, deleteGroup(db, addrs))

NextMeta ==
  \/ \E a \in MetaObjs : MetaPut(a)
  \/ \E targets \in SetsUpTo(InhumeAddrs, MaxTargets) : MetaInhume(TombAddr, targets)
  \/ \E targets \in SetsUpTo(LockTargets, MaxTargets) : MetaLock(LockAddr, targets)
  \/ \E a \in MoveAddrs : MetaToMoveIt(a)
  \/ \E addrs \in Batches : MetaDelete(addrs)

Spec == InitMeta /\ [][NextMeta]_vars

(***************************************************************************)
(* The storage engine's Exists: one call that iterates over the shards in  *)
(* the order sorted for the address.  What each shard's Exists returns is  *)
(* an input: a result (nil, or a result holding true or false) and an      *)
(* error (nil, AlreadyRemoved, or another error).                          *)
(***************************************************************************)
ShardAnswers ==
  {[res |-> "true", err |-> "nil"], [res |-> "false", err |-> "nil"],
   [res |-> "nil", err |-> "AlreadyRemoved"], [res |-> "nil", err |-> "other"],
   [res |-> "false", err |-> "other"], [res |-> "true", err |-> "other"]}

\* the orders in which iterateOverSortedShards may visit the shards
Orders ==
  {o \in [Shards -> Shards] : \A s \in Shards : \E k \in Shards : o[k] = s}

\* reportShardError: the error is counted for the shard
reportShardError(e, sh) == [e EXCEPT !.errs[sh] = @ + 1]

\* readResult taking the last shard's answer
readResultLast(e, a) ==
  IF a.res # "nil" THEN [e EXCEPT !.exists = (a.res = "true")] ELSE e

\* the result read by the handler: exists becomes res.Exists() when a result
\* was returned and exists is not yet set
readResult(e, a) ==
  IF a.res # "nil" /\ ~e.exists THEN [e EXCEPT !.exists = (a.res = "true")] ELSE e

\* a handler that also stops at the first shard that holds the object
existsHandlerStopOnFound(e, sh, a) ==
  IF a.err # "nil"
    THEN IF IsErrRemoved(a.err)
           THEN [e EXCEPT !.alreadyRemoved = TRUE, !.stop = TRUE]
           ELSE readResult(reportShardError(e, sh), a)
    ELSE [readResult(e, a) EXCEPT !.stop = (a.res = "true")]

\* a handler that also stops at a shard that failed
existsHandlerStopOnError(e, sh, a) ==
  IF a.err # "nil"
    THEN IF IsErrRemoved(a.err)
           THEN [e EXCEPT !.alreadyRemoved = TRUE, !.stop = TRUE]
           ELSE [readResult(reportShardError(e, sh), a) EXCEPT !.stop = TRUE]
    ELSE readResult(e, a)

\* a handler that notes AlreadyRemoved and goes on to the next shard
existsHandlerNoStop(e, sh, a) ==
  IF a.err # "nil"
    THEN IF IsErrRemoved(a.err)
           THEN [e EXCEPT !.alreadyRemoved = TRUE]
           ELSE readResult(reportShardError(e, sh), a)
    ELSE readResult(e, a)

\* a handler that reports every error of a shard, AlreadyRemoved too
existsHandlerReportRemoved(e, sh, a) ==
  IF a.err # "nil"
    THEN IF IsErrRemoved(a.err)
           THEN [reportShardError(e, sh) EXCEPT !.alreadyRemoved = TRUE, !.stop = TRUE]
           ELSE readResult(reportShardError(e, sh), a)
    ELSE readResult(e, a)

\* the handler that exists passes to iterateOverSortedShards, called for
\* shard sh whose Exists returned a; stop is the handler's return value
existsHandler(e, sh, a) ==
  IF a.err # "nil"
    THEN IF IsErrRemoved(a.err)
           THEN [e EXCEPT !.alreadyRemoved = TRUE, !.stop = TRUE]
           ELSE readResult(reportShardError(e, sh), a)
    ELSE readResult(e, a)

\* what exists returns after the iteration
existsReturn(e) ==
  IF e.alreadyRemoved THEN [res |-> "false", err |-> "AlreadyRemoved"]
  ELSE [res |-> IF e.exists THEN "true" ELSE "false", err |-> "nil"]

InitEngine ==
  /\ tgt = NoTarget
  /\ acl = NoACL
  /\ gc = NoGC
  /\ blobs = {}
  /\ payload = {}
  /\ db = EmptyDB
  /\ last = NoLast
  /\ rf = NoRefill
  /\ \E ans \in [Shards -> ShardAnswers], order \in Orders :
       eng = [NoEngine EXCEPT !.pc = "iterate", !.ans = ans, !.order = order,
                              !.i = 1, !.errs = [s \in Shards |-> 0]]
  /\ shd = NoShard
  /\ lc = NoLife

EngineVisited(e) ==
  /\ eng' = [e EXCEPT !.i = @ + 1, !.visited = Append(@, eng.order[eng.i]),
                      !.pc = IF e.stop \/ eng.i = NumShards THEN "return"
                             ELSE "iterate"]
  /\ UNCHANGED <<blobs, payload, db, last, rf, shd, lc, gc, tgt, acl>>

\* one turn of the loop of iterateOverSortedShards
EngineVisit ==
  /\ eng.pc = "iterate"
  /\ EngineVisited(existsHandler(eng, eng.order[eng.i], eng.ans[eng.order[eng.i]]))

EngineReturn ==
  /\ eng.pc = "return"
  /\ eng' = [eng EXCEPT !.pc = "done", !.result = existsReturn(eng)]
  /\ UNCHANGED <<blobs, payload, db, last, rf, shd, lc, gc, tgt, acl>>

NextEngine == EngineVisit \/ EngineReturn

SpecEngine == InitEngine /\ [][NextEngine]_vars

(***************************************************************************)
(* The shard's metabase refill.  Objects are put to the shard and the      *)
(* stored tombstone is inhumed (state1); refillMetabase then resets the    *)
(* metabase and rebuilds it from the blob store, which yields the stored   *)
(* objects in any order.                                                   *)
(***************************************************************************)
\* the objects put to the shard in this machine
RefillObjs ==
  {<<"c1", "o1">>, <<"c1", "o2">>, <<"c1", "o3">>, TombAddr, <<"c2", "o1">>}

\* the payloads the tombstone object may carry
Payloads == {S \in SUBSET MemberIDs : Cardinality(S) <= MaxMembers}

\* payload bytes that are not a marshalled tombstone
BadPayload == {"garbage"}

\* tombstone.Unmarshal(obj.Payload()): the member ids, or an error
tombstoneUnmarshal(p) ==
  IF p = BadPayload THEN [members |-> {}, err |-> "unmarshal"]
                    ELSE [members |-> p, err |-> "nil"]

\* tombMembers formed with every container id instead of the tombstone's
tombMembersAnyContainer(tombAddr) ==
  {a \in Addrs : a[2] \in payload}

\* tombMembers: the member ids of the tombstone's payload, each made an
\* address with the container id of the tombstone
tombMembers(tombAddr) ==
  {<<tombAddr[1], m>> : m \in tombstoneUnmarshal(payload).members}

InitRefill ==
  /\ tgt = NoTarget
  /\ acl = NoACL
  /\ gc = NoGC
  /\ blobs = {}
  /\ payload \in Payloads \cup {BadPayload}
  /\ db = EmptyDB
  /\ last = NoLast
  /\ rf = NoRefill
  /\ eng = NoEngine
  /\ shd = NoShard
  /\ lc = NoLife

\* Shard.Put: the blob is written, then the metabase records the object; a
\* metabase error is returned and the blob stays
ShardPutDone(a, r) ==
  /\ blobs' = blobs \cup {a}
  /\ db' = r.db
  /\ UNCHANGED <<payload, last, rf, eng, shd, lc, gc, tgt, acl>>

ShardPut(a) ==
  /\ rf.pc = "idle"
  /\ a \notin blobs
  /\ ShardPutDone(a, dbPut(db, a, a \in SmallAddrs))

\* Shard.Inhume of the members of the tombstone object
ShardInhumeDone(r) ==
  /\ db' = r.db
  /\ UNCHANGED <<blobs, payload, last, rf, eng, shd, lc, gc, tgt, acl>>

ShardInhume ==
  /\ rf.pc = "idle"
  /\ ShardInhumeDone(dbInhume(db, TombAddr, tombMembers(TombAddr)))

\* refillMetabase up to the call of IterateObjects: the metabase is reset
RefillStart ==
  /\ rf.pc \in {"idle", "done"}
  /\ rf.n < MaxRefills
  /\ db' = dbReset(db)
  /\ rf' = [pc |-> IF blobs = {} THEN "done" ELSE "iterate", todo |-> blobs,
            n |-> rf.n + 1, snap |-> db, err |-> "nil"]
  /\ UNCHANGED <<blobs, payload, last, eng, shd, lc, gc, tgt, acl>>

\* a handler that returns every error of meta.Put
refillPutNoIgnore(a, r) == [db |-> r.db, err |-> r.err]

\* the handler's return after meta.Put returned r for object a
refillPut(a, r) ==
  IF r.err # "nil" /\ ~IsErrRemoved(r.err)
    THEN [db |-> r.db, err |-> r.err]
    ELSE [db |-> r.db, err |-> "nil"]

\* the handler after the tombstone's members were inhumed with result r
refillInhumed(a, r) ==
  IF r.err # "nil"
    THEN [db |-> r.db, err |-> "could not inhume objects"]
    ELSE refillPut(a, dbPut(r.db, a, a \in SmallAddrs))

\* a handler that inhumes the members without the tombstone's address
refillHandlerNoTombAddr(d, a) ==
  IF TypeOf(a) = "Tombstone"
    THEN IF tombstoneUnmarshal(payload).err # "nil"
           THEN [db |-> d, err |-> "could not unmarshal tombstone content"]
           ELSE refillInhumed(a, dbInhume(d, NoAddr, tombMembers(a)))
    ELSE refillPut(a, dbPut(d, a, a \in SmallAddrs))

\* the handler refillMetabase passes to IterateObjects, called for the stored
\* object at address a
refillHandler(d, a) ==
  IF TypeOf(a) = "Tombstone"
    THEN IF tombstoneUnmarshal(payload).err # "nil"
           THEN [db |-> d, err |-> "could not unmarshal tombstone content"]
           ELSE refillInhumed(a, dbInhume(d, a, tombMembers(a)))
    ELSE refillPut(a, dbPut(d, a, a \in SmallAddrs))

\* IterateObjects after the handler returned r for a: an error ends the
\* iteration and is returned by refillMetabase
RefillStepped(a, r) ==
  /\ db' = r.db
  /\ rf' = [rf EXCEPT !.todo = @ \ {a}, !.err = r.err,
                      !.pc = IF r.err # "nil" \/ rf.todo = {a} THEN "done"
                             ELSE "iterate"]
  /\ UNCHANGED <<blobs, payload, last, eng, shd, lc, gc, tgt, acl>>

\* one object yielded by IterateObjects, in unspecified order
RefillStep(a) ==
  /\ rf.pc = "iterate"
  /\ a \in rf.todo
  /\ RefillStepped(a, refillHandler(db, a))

\* IterateObjects yielding the stored objects in the order of the sequence
RECURSIVE refillIterate(_, _)
refillIterated(r, rest) ==
  IF r.err # "nil" THEN r ELSE refillIterate(r.db, rest)

refillIterate(d, order) ==
  IF order = <<>> THEN [db |-> d, err |-> "nil"]
  ELSE refillIterated(refillHandler(d, Head(order)), Tail(order))

\* refillMetabase when the blob store yields its objects in the given order
refillMetabase(d, order) == refillIterate(dbReset(d), order)

NextRefill ==
  \/ \E a \in RefillObjs : ShardPut(a)
  \/ ShardInhume
  \/ RefillStart
  \/ \E a \in RefillObjs : RefillStep(a)

SpecRefill == InitRefill /\ [][NextRefill]_vars

(***************************************************************************)
(* Refill of a shard that stores a lock object.  The lock object is put    *)
(* like any other and the shard's Lock records its targets as locked;      *)
(* Inhume of a target is tried before and after refillMetabase.            *)
(***************************************************************************)
\* the objects put to the shard in this machine: the lock object and the
\* objects it may protect
RefillLockObjs == {<<"c1", "o1">>, <<"c2", "o1">>, LockAddr}

\* the members the payload of the lock object lists (lock.WriteMembers)
lockMembers(lockAddr) == {<<lockAddr[1], "o1">>}

InitRefillLock ==
  /\ tgt = NoTarget
  /\ acl = NoACL
  /\ gc = NoGC
  /\ blobs = {}
  /\ payload = {}
  /\ db = EmptyDB
  /\ last = NoLast
  /\ rf = NoRefill
  /\ eng = NoEngine
  /\ shd = NoShard
  /\ lc = NoLife

\* Shard.Lock for the stored lock object: its members become locked
ShardLock ==
  /\ rf.pc = "idle"
  /\ LockAddr \in blobs
  /\ db' = dbLock(db, LockAddr, lockMembers(LockAddr))
  /\ last' = [NoLast EXCEPT !.op = "Lock", !.tomb = LockAddr,
                            !.targets = lockMembers(LockAddr)]
  /\ UNCHANGED <<blobs, payload, rf, eng, shd, lc, gc, tgt, acl>>

\* Shard.Inhume of one address while no refill is running
ShardInhumeOne(t) ==
  /\ rf.pc \in {"idle", "done"}
  /\ MetaInhume(TombAddr, {t})

NextRefillLock ==
  \/ \E a \in RefillLockObjs : ShardPut(a)
  \/ ShardLock
  \/ \E t \in RefillLockObjs \ {LockAddr} : ShardInhumeOne(t)
  \/ RefillStart
  \/ \E a \in RefillLockObjs : RefillStep(a)

SpecRefillLock == InitRefillLock /\ [][NextRefillLock]_vars

(***************************************************************************)
(* The shard's life cycle: Open, Init and Close walk over the components   *)
(* one at a time and return at the first component that fails; Init starts *)
(* the GC worker, whose sweeps and epoch handlers run while it is started. *)
(***************************************************************************)
Components == {"blobStor", "metaBase", "writeCache"}

\* the components slice built by Open and by Init
openComponents(hasWriteCache) ==
  <<"blobStor", "metaBase">> \o (IF hasWriteCache THEN <<"writeCache">> ELSE <<>>)

\* the components slice built by Close
closeComponents(hasWriteCache) ==
  (IF hasWriteCache THEN <<"writeCache">> ELSE <<>>) \o <<"blobStor", "metaBase">>

\* the objects a shard may hold when it is opened: a big and a small regular
\* object
LifeObjs == {<<"c1", "o1">>, <<"c2", "o1">>}

\* the metabase of a shard that stores the objects of S, of which those of G
\* were inhumed by a tombstone that is not stored in the shard
RECURSIVE lifePut(_, _)
lifePut(d, S) ==
  IF S = {} THEN d
  ELSE LET a == CHOOSE x \in S : TRUE
       IN  lifePut(dbPut(d, a, a \in SmallAddrs).db, S \ {a})

lifeStored(S, G) ==
  IF G = {} THEN lifePut(EmptyDB, S) ELSE dbInhume(lifePut(EmptyDB, S), TombAddr, G).db

\* Metabase Init: prepares the buckets and keeps what they hold
metaBaseInit(d) == [db |-> d, err |-> "nil"]

\* an fMetabase that is the plain metabase init whatever is requested
fMetabaseAlwaysInit(d, needRefillMetabase, order) == metaBaseInit(d)

\* fMetabase of Shard.Init: refillMetabase when needRefillMetabase() holds,
\* else metaBase.Init; order is the order in which the blob store yields its
\* objects
fMetabase(d, needRefillMetabase, order) ==
  IF needRefillMetabase THEN refillMetabase(d, order) ELSE metaBaseInit(d)

\* the orders in which the blob store may yield the objects of S
iterateOrders(S) == {q \in SeqsOfLen(S, Cardinality(S)) : Range(q) = S}

InitLife ==
  /\ tgt = NoTarget
  /\ acl = NoACL
  /\ gc = NoGC
  /\ payload = {}
  /\ last = NoLast
  /\ rf = NoRefill
  /\ eng = NoEngine
  /\ shd = NoShard
  /\ \E S \in SUBSET LifeObjs : \E G \in SUBSET S :
       /\ blobs = S
       /\ db = lifeStored(S, G)
  /\ \E w \in BOOLEAN, need \in BOOLEAN :
       lc = [NoLife EXCEPT !.hasWC = w, !.refill = need]

\* Shard.Open up to its loop
LifeOpen ==
  /\ lc.pc = "new"
  /\ lc' = [lc EXCEPT !.pc = "open", !.todo = openComponents(lc.hasWC)]
  /\ UNCHANGED <<blobs, payload, db, last, rf, eng, shd, gc, tgt, acl>>

\* one turn of the loop of Open; ok is whether component.Open() returned nil
LifeOpenStep(ok) ==
  /\ lc.pc = "open"
  /\ lc' = IF ok
             THEN [lc EXCEPT !.comp[Head(lc.todo)] = "open",
                             !.opened = Append(@, Head(lc.todo)),
                             !.todo = Tail(@),
                             !.pc = IF Len(lc.todo) = 1 THEN "opened" ELSE "open"]
             ELSE [lc EXCEPT !.pc = "failed", !.err = "could not open"]
  /\ UNCHANGED <<blobs, payload, db, last, rf, eng, shd, gc, tgt, acl>>

\* Shard.Init up to its loop
LifeInit ==
  /\ lc.pc = "opened"
  /\ lc' = [lc EXCEPT !.pc = "init", !.todo = openComponents(lc.hasWC), !.snap = db]
  /\ UNCHANGED <<blobs, payload, db, last, rf, eng, shd, gc, tgt, acl>>

\* what the component function of Init called in this turn returned: fMetabase
\* for the metabase, Init of the component otherwise
lifeInitComponent(c, order) ==
  IF c = "metaBase" THEN fMetabase(db, lc.refill, order) ELSE metaBaseInit(db)

\* one turn of the loop of Init: ok is whether the component function could
\* start (it returns an error before it changed anything otherwise), r is
\* what it returned; after the last component the GC is created and started
LifeInitStepped(ok, r) ==
  /\ lc' = IF ok /\ r.err = "nil"
             THEN [lc EXCEPT !.comp[Head(lc.todo)] = "ready",
                             !.inited = Append(@, Head(lc.todo)),
                             !.todo = Tail(@),
                             !.pc = IF Len(lc.todo) = 1 THEN "ready" ELSE "init",
                             !.gc = IF Len(lc.todo) = 1 THEN "running" ELSE @]
             ELSE [lc EXCEPT !.pc = "failed", !.err = "could not initialize"]
  /\ db' = IF ok THEN r.db ELSE db
  /\ UNCHANGED <<blobs, payload, last, rf, eng, shd, gc, tgt, acl>>

LifeInitStep(ok, order) ==
  /\ lc.pc = "init"
  /\ LifeInitStepped(ok, lifeInitComponent(Head(lc.todo), order))

\* a sweep (removeGarbage) or a new-epoch handler of the started GC worker;
\* log keeps which components it found closed
LifeGCRun ==
  /\ lc.gc = "running"
  /\ lc' = [lc EXCEPT !.log = Append(@, {c \in Components : lc.comp[c] = "closed"})]
  /\ Len(lc.log) < MaxSweeps
  /\ UNCHANGED <<blobs, payload, db, last, rf, eng, shd, gc, tgt, acl>>

\* Shard.Close up to its loop
LifeClose ==
  /\ lc.pc = "ready"
  /\ lc' = [lc EXCEPT !.pc = "close", !.todo = closeComponents(lc.hasWC)]
  /\ UNCHANGED <<blobs, payload, db, last, rf, eng, shd, gc, tgt, acl>>

\* one turn of the loop of Close; ok is whether component.Close() returned nil
LifeCloseStep(ok) ==
  /\ lc.pc = "close"
  /\ lc.todo # <<>>
  /\ lc' = IF ok
             THEN [lc EXCEPT !.comp[Head(lc.todo)] = "closed",
                             !.closed = Append(@, Head(lc.todo)),
                             !.todo = Tail(@)]
             ELSE [lc EXCEPT !.pc = "failed", !.err = "could not close"]
  /\ UNCHANGED <<blobs, payload, db, last, rf, eng, shd, gc, tgt, acl>>

\* Shard.Close after its loop: s.gc.stop()
LifeGCStop ==
  /\ lc.pc = "close"
  /\ lc.todo = <<>>
  /\ lc' = [lc EXCEPT !.gc = "stopped", !.pc = "closed"]
  /\ UNCHANGED <<blobs, payload, db, last, rf, eng, shd, gc, tgt, acl>>

NextLife ==
  \/ LifeOpen
  \/ \E ok \in BOOLEAN : LifeOpenStep(ok)
  \/ LifeInit
  \/ \E ok \in BOOLEAN, order \in iterateOrders(blobs) : LifeInitStep(ok, order)
  \/ LifeGCRun
  \/ LifeClose
  \/ \E ok \in BOOLEAN : LifeCloseStep(ok)
  \/ LifeGCStop

SpecLife == InitLife /\ [][NextLife]_vars

(***************************************************************************)
(* The shard's data path: Put stages a small object in the write cache or  *)
(* writes it to the blob store and records it in the metabase; the flush   *)
(* loop moves a staged object to the blob store, then to the metabase,     *)
(* then drops it from the cache; Get, Head and Exists ask the write cache  *)
(* and then the metabase.                                                  *)
(***************************************************************************)
\* the objects put to the shard in this machine: a big regular object, the
\* two small children of the virtual parent, a small regular object
ShardObjs ==
  {<<"c1", "o1">>, <<"c1", "o2">>, <<"c1", "o3">>, <<"c2", "o1">>}

ReadAddrs == ShardObjs \cup {ParentAddr}

\* split info with the child recorded as the linking object
splitInfoAsLink(d, p) ==
  [splitID |-> SplitIDOf(d.parent[p][Len(d.parent[p])]),
   lastPart |-> NoID,
   link |-> d.parent[p][Len(d.parent[p])][2]]

\* the split info of virtual parent p, from the child recorded for it
splitInfo(d, p) ==
  [splitID |-> SplitIDOf(d.parent[p][Len(d.parent[p])]),
   lastPart |-> d.parent[p][Len(d.parent[p])][2],
   link |-> NoID]

\* a metabase error propagated by the shard
metaFailed(d, a, e) ==
  IF e = "SplitInfoError" THEN [Failed(e) EXCEPT !.si = splitInfo(d, a)]
                          ELSE Failed(e)

\* WriteCache.Get
wcGet(s, a) ==
  IF a \in s.cache THEN Found(Object(a)) ELSE Failed("ObjectNotFound")

\* a WriteCache.Head that returns the staged object with its payload
wcHeadWithPayload(s, a) ==
  IF a \in s.cache THEN Found(Object(a)) ELSE Failed("ObjectNotFound")

\* WriteCache.Head
wcHead(s, a) ==
  IF a \in s.cache THEN Found(CutPayload(Object(a))) ELSE Failed("ObjectNotFound")

\* BlobStore.Get(addr, blob_ref?): a direct fetch from the small pool when the
\* metabase supplied a blob_ref, otherwise both sub-stores are probed
blobGet(s, a, hasRef) ==
  IF (IF hasRef THEN a \in s.pool ELSE a \in s.pool \cup s.tree)
    THEN Found(Object(a)) ELSE Failed("ObjectNotFound")

\* Shard.Get after the metabase answered m
shardGetStored(s, d, a, m) ==
  IF m.err # "nil" THEN metaFailed(d, a, m.err) ELSE blobGet(s, a, a \in d.small)

\* a Shard.Get that does not ask the write cache
shardGetNoCache(s, d, a) == shardGetStored(s, d, a, dbGet(d, a, TRUE, TRUE))

\* Shard.Get: WriteCache.Get, else Metabase.Get for the blob_ref and
\* BlobStore.Get
shardGet(s, d, a) ==
  IF s.hasWC /\ wcGet(s, a).err = "nil"
    THEN wcGet(s, a)
    ELSE shardGetStored(s, d, a, dbGet(d, a, TRUE, TRUE))

\* Shard.Head after the metabase answered m
shardHeadMeta(d, a, m) ==
  IF m.err # "nil" THEN metaFailed(d, a, m.err)
                   ELSE Found([hdr |-> m.obj, payload |-> <<>>])

\* a Shard.Head that always asks the metabase for the raw object
shardHeadAlwaysRaw(s, d, a, raw) ==
  IF s.hasWC /\ wcHead(s, a).err = "nil"
    THEN wcHead(s, a)
    ELSE shardHeadMeta(d, a, dbHead(d, a, TRUE))

\* Shard.Head: WriteCache.Head, else Metabase.Head
shardHead(s, d, a, raw) ==
  IF s.hasWC /\ wcHead(s, a).err = "nil"
    THEN wcHead(s, a)
    ELSE shardHeadMeta(d, a, dbHead(d, a, raw))

\* Shard.Exists after the metabase answered m
shardExistsMeta(m) ==
  [obj |-> NoObject, err |-> m.err, si |-> NoSplitInfo, exists |-> m.exists]

\* a Shard.Exists that asks the metabase only
shardExistsMetaOnly(s, d, a) == shardExistsMeta(dbExists(d, a))

\* Shard.Exists: WriteCache.Exists, else Metabase.Exists
shardExists(s, d, a) ==
  IF s.hasWC /\ a \in s.cache
    THEN [NoResult EXCEPT !.exists = TRUE]
    ELSE shardExistsMeta(dbExists(d, a))

\* what Shard.Exists hands to the engine: a result, or an error
shardAnswer(r) ==
  [res |-> IF r.err # "nil" THEN "nil" ELSE IF r.exists THEN "true" ELSE "false",
   err |-> IF r.err \in {"nil", "AlreadyRemoved"} THEN r.err ELSE "other"]

\* what a shard that does not hold the object answers: false, or a failure
OtherAnswers == {[res |-> "false", err |-> "nil"], [res |-> "nil", err |-> "other"]}

\* the answers of the engine's shards: shard 1 is the shard of this machine
engineAnswers(first, others) ==
  [s \in Shards |-> IF s = 1 THEN first ELSE others[s]]

\* StorageEngine.exists as one call: the handler is applied to the shards in
\* the given order until it returns stop
RECURSIVE engineIterate(_, _, _, _)
engineVisited(e, ans, order, i) ==
  IF e.stop \/ i = NumShards THEN existsReturn(e)
  ELSE engineIterate(e, ans, order, i + 1)

engineIterate(e, ans, order, i) ==
  engineVisited(existsHandler(e, order[i], ans[order[i]]), ans, order, i)

engineExists(ans, order) ==
  engineIterate([NoEngine EXCEPT !.errs = [s \in Shards |-> 0]], ans, order, 1)

InitShard ==
  /\ tgt = NoTarget
  /\ acl = NoACL
  /\ gc = NoGC
  /\ blobs = {}
  /\ payload = {}
  /\ db = EmptyDB
  /\ last = NoLast
  /\ rf = NoRefill
  /\ eng = NoEngine
  /\ lc = NoLife
  /\ \E w \in BOOLEAN : shd = [NoShard EXCEPT !.hasWC = w]

\* Shard.Put when the write cache admits the object
ShPutCache(a) ==
  /\ shd' = [shd EXCEPT !.cache = @ \cup {a}, !.put = @ \cup {a}, !.op = "Put",
                        !.addr = a, !.raw = FALSE, !.res = NoResult]
  /\ UNCHANGED <<blobs, payload, db, last, rf, eng, lc, gc, tgt, acl>>

\* Shard.Put to the blob store; r is what Metabase.Put returned
ShPutStored(a, r) ==
  /\ blobs' = blobs \cup {a}
  /\ db' = r.db
  /\ shd' = [shd EXCEPT !.pool = IF IsSmall(a) THEN @ \cup {a} ELSE @,
                        !.tree = IF IsSmall(a) THEN @ ELSE @ \cup {a},
                        !.put = IF r.err = "nil" THEN @ \cup {a} ELSE @,
                        !.op = "Put", !.addr = a, !.raw = FALSE,
                        !.res = IF r.err = "nil" THEN NoResult ELSE Failed(r.err)]
  /\ UNCHANGED <<payload, last, rf, eng, lc, gc, tgt, acl>>

\* Shard.Put: WriteCache.Put, else BlobStore.Put and Metabase.Put; the write
\* cache stages small objects and refuses admission when it is full
ShPut(a) ==
  /\ a \notin shd.put
  /\ IF shd.hasWC /\ IsSmall(a) /\ Cardinality(shd.cache) < MaxCache
       THEN ShPutCache(a)
       ELSE ShPutStored(a, dbPut(db, a, IsSmall(a)))

\* flush loop: a staged object is written to the blob store
ShFlushBlob(a) ==
  /\ shd.fl.pc = "idle"
  /\ a \in shd.cache
  /\ blobs' = blobs \cup {a}
  /\ shd' = [shd EXCEPT !.pool = @ \cup {a}, !.fl = [pc |-> "meta", addr |-> a]]
  /\ UNCHANGED <<payload, db, last, rf, eng, lc, gc, tgt, acl>>

\* flush loop: the metabase entry is installed with the blob_ref
ShFlushMeta ==
  /\ shd.fl.pc = "meta"
  /\ db' = dbPut(db, shd.fl.addr, TRUE).db
  /\ shd' = [shd EXCEPT !.fl.pc = "evict"]
  /\ UNCHANGED <<blobs, payload, last, rf, eng, lc, gc, tgt, acl>>

\* flush loop: the object is removed from the cache
ShFlushEvict ==
  /\ shd.fl.pc = "evict"
  /\ shd' = [shd EXCEPT !.cache = @ \ {shd.fl.addr},
                        !.fl = [pc |-> "idle", addr |-> NoAddr]]
  /\ UNCHANGED <<blobs, payload, db, last, rf, eng, lc, gc, tgt, acl>>

ShRead(op, a, raw, r) ==
  /\ shd' = [shd EXCEPT !.op = op, !.addr = a, !.raw = raw, !.res = r]
  /\ UNCHANGED <<blobs, payload, db, last, rf, eng, lc, gc, tgt, acl>>

ShGet(a) == ShRead("Get", a, FALSE, shardGet(shd, db, a))

ShHead(a, raw) == ShRead("Head", a, raw, shardHead(shd, db, a, raw))

ShExists(a) == ShRead("Exists", a, FALSE, shardExists(shd, db, a))

\* what StorageEngine.exists returned, as a read result
engineResult(r) == [NoResult EXCEPT !.exists = (r.res = "true"), !.err = r.err]

\* engine Exists, issued by the caller whose Put of the object succeeded,
\* over this shard and the other shards of the engine
ShEngineExists(a, others, order) ==
  /\ a \in shd.put
  /\ ShRead("EngineExists", a, FALSE,
            engineResult(engineExists(
              engineAnswers(shardAnswer(shardExists(shd, db, a)), others), order)))

NextShard ==
  \/ \E a \in ShardObjs : ShPut(a)
  \/ \E a \in ShardObjs : ShFlushBlob(a)
  \/ ShFlushMeta
  \/ ShFlushEvict
  \/ \E a \in ReadAddrs : ShGet(a)
  \/ \E a \in ReadAddrs, raw \in BOOLEAN : ShHead(a, raw)
  \/ \E a \in ReadAddrs : ShExists(a)
  \/ \E a \in ShardObjs, others \in [Shards \ {1} -> OtherAnswers], order \in Orders :
       ShEngineExists(a, others, order)

SpecShard == InitShard /\ [][NextShard]_vars

(***************************************************************************)
(* The shard's modes and its mutating operations: Put, Delete, Inhume,     *)
(* Lock and ToMoveIt fail with ReadOnlyMode while the mode is not          *)
(* ReadWrite; Put writes the blob and then the metabase entry, and either  *)
(* write may fail; the engine counts the errors of the shard and demotes   *)
(* it to Degraded at errorThreshold; the mode is also set by hand.         *)
(***************************************************************************)
Modes == {"ReadWrite", "ReadOnly", "Degraded"}

MutatingOps == {"Put", "Delete", "Inhume", "Lock", "ToMoveIt"}

\* the objects put to the shard in this machine: a big and a small object;
\* the object that is inhumed, locked, marked to move and read
OpsObjs == {<<"c1", "o1">>, <<"c2", "o1">>}

OpsTargets == {<<"c1", "o1">>}

\* what a mutating operation returns: the shard, the metabase, the stored
\* blobs, and the error
opsResult(s, d, b, e) == [s |-> s, d |-> d, b |-> b, err |-> e]

\* a mode check that lets a degraded shard write
readOnlyStrict(s) == s.mode = "ReadOnly"

\* the mode check of every mutating operation
readOnly(s) == s.mode # "ReadWrite"

\* BlobStore.Put: the blob enters the small pool or the tree
blobPut(s, a) ==
  [s EXCEPT !.pool = IF IsSmall(a) THEN @ \cup {a} ELSE @,
            !.tree = IF IsSmall(a) THEN @ ELSE @ \cup {a}]

\* Shard.Put after the blob was written: Metabase.Put, which may fail
opsPutMeta(s, d, b, a, metaOk, r) ==
  IF ~metaOk THEN opsResult(s, d, b, "IO")
  ELSE opsResult(IF r.err = "nil" THEN [s EXCEPT !.put = @ \cup {a}] ELSE s,
                 r.db, b, r.err)

\* a Put that installs the metabase entry first and writes the blob second
opsPutMetaFirst(s, d, b, a, blobOk, metaOk) ==
  IF ~metaOk THEN opsResult(s, d, b, "IO")
  ELSE IF ~blobOk THEN opsResult(s, dbPut(d, a, IsSmall(a)).db, b, "IO")
  ELSE opsPutMeta(blobPut(s, a), d, b \cup {a}, a, metaOk, dbPut(d, a, IsSmall(a)))

\* Shard.Put to the blob store: BlobStore.Put, then Metabase.Put with the
\* blob_ref; either may fail
opsPutStored(s, d, b, a, blobOk, metaOk) ==
  IF ~blobOk THEN opsResult(s, d, b, "IO")
  ELSE opsPutMeta(blobPut(s, a), d, b \cup {a}, a, metaOk, dbPut(d, a, IsSmall(a)))

\* Shard.Put: WriteCache.Put, else BlobStore.Put and Metabase.Put
opsPut(s, d, b, a, blobOk, metaOk) ==
  IF readOnly(s) THEN opsResult(s, d, b, "ReadOnlyMode")
  ELSE IF s.hasWC /\ IsSmall(a) /\ Cardinality(s.cache) < MaxCache
    THEN opsResult([s EXCEPT !.cache = @ \cup {a}, !.put = @ \cup {a}], d, b, "nil")
    ELSE opsPutStored(s, d, b, a, blobOk, metaOk)

\* Shard.Delete: the object leaves the write cache, BlobStore.Delete, then
\* Metabase.Delete
opsDelete(s, d, b, a) ==
  IF readOnly(s) THEN opsResult(s, d, b, "ReadOnlyMode")
  ELSE opsResult([s EXCEPT !.cache = @ \ {a}, !.pool = @ \ {a}, !.tree = @ \ {a},
                           !.put = @ \ {a}],
                 boltUpdate(d, deleteGroup(d, <<a>>)).db, b \ {a}, "nil")

\* Shard.Inhume: Metabase.Inhume only
opsInhume(s, d, b, tomb, targets) ==
  IF readOnly(s) THEN opsResult(s, d, b, "ReadOnlyMode")
  ELSE opsResult(s, dbInhume(d, tomb, targets).db, b, dbInhume(d, tomb, targets).err)

\* Shard.Lock: Metabase.Lock only
opsLock(s, d, b, locker, targets) ==
  IF readOnly(s) THEN opsResult(s, d, b, "ReadOnlyMode")
  ELSE opsResult(s, dbLock(d, locker, targets), b, "nil")

\* Shard.ToMoveIt: the metabase's to-move bucket
opsToMoveIt(s, d, b, a) ==
  IF readOnly(s) THEN opsResult(s, d, b, "ReadOnlyMode")
  ELSE opsResult(s, [d EXCEPT !.toMove = @ \cup {a}], b, "nil")

\* an error accounting that counts the error and never demotes the shard
shardErrorCounted(s) == [s EXCEPT !.errs = @ + 1]

\* the engine's error accounting for the shard: the counter is incremented
\* and at errorThreshold the shard is demoted to Degraded
shardErrorReported(s) ==
  [s EXCEPT !.errs = @ + 1,
            !.mode = IF s.errs + 1 >= errorThreshold THEN "Degraded" ELSE @]

InitOps ==
  /\ tgt = NoTarget
  /\ acl = NoACL
  /\ gc = NoGC
  /\ blobs = {}
  /\ payload = {}
  /\ db = EmptyDB
  /\ last = NoLast
  /\ rf = NoRefill
  /\ eng = NoEngine
  /\ lc = NoLife
  /\ \E w \in BOOLEAN : shd = [NoShard EXCEPT !.hasWC = w]

\* a mutating operation returned r
OpsDone(op, a, r) ==
  /\ shd' = [r.s EXCEPT !.op = op, !.addr = a, !.raw = FALSE,
                        !.res = IF r.err = "nil" THEN NoResult ELSE Failed(r.err),
                        !.calls = (@ + 1) % 2]
  /\ db' = r.d
  /\ blobs' = r.b
  /\ UNCHANGED <<payload, last, rf, eng, lc, gc, tgt, acl>>

OpsPut(a, blobOk, metaOk) ==
  /\ a \notin shd.put
  /\ OpsDone("Put", a, opsPut(shd, db, blobs, a, blobOk, metaOk))

\* Delete is called for objects that the flush loop is not moving
OpsDelete(a) ==
  /\ a # shd.fl.addr
  /\ OpsDone("Delete", a, opsDelete(shd, db, blobs, a))

OpsInhume(a) == OpsDone("Inhume", a, opsInhume(shd, db, blobs, TombAddr, {a}))

OpsLock(a) == OpsDone("Lock", a, opsLock(shd, db, blobs, LockAddr, {a}))

OpsToMoveIt(a) ==
  /\ a \in Headers(db)
  /\ OpsDone("ToMoveIt", a, opsToMoveIt(shd, db, blobs, a))

\* a read of the shard through the engine; ok is whether the shard answered
\* without an error that the engine reports
OpsRead(a, ok) ==
  /\ shd.errs < MaxErrors
  /\ shd' = [(IF ok THEN shd ELSE shardErrorReported(shd)) EXCEPT
               !.op = "Get", !.addr = a, !.raw = FALSE,
               !.res = IF ok THEN shardGet(shd, db, a) ELSE Failed("IO"),
               !.calls = (@ + 1) % 2]
  /\ UNCHANGED <<blobs, payload, db, last, rf, eng, lc, gc, tgt, acl>>

\* the mode of the shard is set by hand
OpsSetMode(m) ==
  /\ m # shd.mode
  /\ shd' = [shd EXCEPT !.mode = m, !.op = "SetMode", !.addr = NoAddr, !.raw = FALSE,
                        !.res = NoResult, !.calls = (@ + 1) % 2]
  /\ UNCHANGED <<blobs, payload, db, last, rf, eng, lc, gc, tgt, acl>>

\* the flush loop runs while the shard is writable
OpsFlush ==
  /\ shd.mode = "ReadWrite"
  /\ \/ \E a \in OpsObjs : ShFlushBlob(a)
     \/ ShFlushMeta
     \/ ShFlushEvict

NextOps ==
  \/ \E a \in OpsObjs, blobOk \in BOOLEAN, metaOk \in BOOLEAN : OpsPut(a, blobOk, metaOk)
  \/ \E a \in OpsObjs : OpsDelete(a)
  \/ \E a \in OpsTargets : OpsInhume(a)
  \/ \E a \in OpsTargets : OpsLock(a)
  \/ \E a \in OpsTargets : OpsToMoveIt(a)
  \/ \E a \in OpsTargets, ok \in BOOLEAN : OpsRead(a, ok)
  \/ \E m \in Modes : OpsSetMode(m)
  \/ OpsFlush

SpecOps == InitOps /\ [][NextOps]_vars

(***************************************************************************)
(* The shard's GC worker.  The epoch notifier broadcasts NewEpoch; the     *)
(* worker takes the events one at a time: it cancels the handlers of the   *)
(* previous event, waits until they have returned and starts the three     *)
(* handlers of the new epoch.  A handler works batch by batch and returns  *)
(* at the next batch when it was cancelled.  The remover sweeps the        *)
(* graveyard on its own timer.                                             *)
(***************************************************************************)
\* the handlers Shard.Init registers for eventNewEpoch
Handlers == {"collectExpiredObjects", "collectExpiredTombstones", "collectExpiredLocks"}

\* the regular objects stored in this machine, and the one a lock object may
\* lock
GCObjs == {<<"c1", "o1">>, <<"c2", "o1">>}

GCLockTargets == {<<"c1", "o1">>}

\* a scan that does not pass over the locked objects
expiredObjectsWithLocked(d, exp, e) ==
  {a \in GCObjs \cap Headers(d) : exp[a] <= e /\ ~InGraveyard(d, a)}

\* the stored regular objects that are expired at epoch e, not locked and
\* not yet in the graveyard
expiredObjects(d, exp, e) ==
  {a \in GCObjs \cap Headers(d) :
     exp[a] <= e /\ ~objectLocked(d, a) /\ ~InGraveyard(d, a)}

\* the stored lock objects that are expired at epoch e
expiredLocks(d, exp, e) == {l \in {LockAddr} \cap Headers(d) : exp[l] <= e}

\* Metabase FreeLockedBy(lockers): the locker entries are removed
dbFreeLockedBy(d, lockers) ==
  [d EXCEPT !.locked = [x \in DOMAIN @ |-> @[x] \ lockers]]

\* the handlers started for the NewEpoch event of epoch e
gcTasksOf(e) == {[h |-> h, epoch |-> e, pc |-> "scan", todo |-> {}] : h \in Handlers}

\* a worker that starts the handlers without waiting for the previous ones
prevGroupNoWait(g) == TRUE

\* the handlers of the previous event have returned
prevGroupDone(g) == g.tasks = {}

gcResult(g, d) == [g |-> g, d |-> d]

\* the handler returns
gcReturned(g, d, t) == gcResult([g EXCEPT !.tasks = @ \ {t}], d)

\* the handler goes on with what is left to do
gcContinued(g, d, t, todo) ==
  IF todo = {} THEN gcReturned(g, d, t)
  ELSE gcResult([g EXCEPT !.tasks = (@ \ {t}) \cup {[t EXCEPT !.pc = "work", !.todo = todo]}], d)

\* collectExpiredObjects: the scan, then one Inhume without tombstone address
\* per batch of addresses
collectExpiredObjects(g, d, t, batch) ==
  IF t.pc = "scan" THEN gcContinued(g, d, t, expiredObjects(d, g.exp, t.epoch))
  ELSE gcContinued(g, dbInhume(d, NoAddr, batch \cap t.todo).db, t,
                   IF dbInhume(d, NoAddr, batch \cap t.todo).err = "nil"
                     THEN t.todo \ batch ELSE {})

\* collectExpiredTombstones: no tombstone is stored in this machine
collectExpiredTombstones(g, d, t) == gcReturned(g, d, t)

\* collectExpiredLocks: the expired lockers free their targets and are put to
\* the graveyard without tombstone address
collectExpiredLocks(g, d, t) ==
  gcReturned(g,
             IF expiredLocks(d, g.exp, t.epoch) = {} THEN d
             ELSE dbInhume(dbFreeLockedBy(d, expiredLocks(d, g.exp, t.epoch)), NoAddr,
                           expiredLocks(d, g.exp, t.epoch)).db,
             t)

\* one step of handler t: it returns when its event was cancelled
gcHandler(g, d, t, batch) ==
  IF t.epoch \in g.cancelled THEN gcReturned(g, d, t)
  ELSE IF t.h = "collectExpiredObjects" THEN collectExpiredObjects(g, d, t, batch)
  ELSE IF t.h = "collectExpiredTombstones" THEN collectExpiredTombstones(g, d, t)
  ELSE collectExpiredLocks(g, d, t)

\* the batches of at most SweepBatch addresses of S
gcBatches(S) == {B \in SUBSET S : B # {} /\ Cardinality(B) <= SweepBatch}

\* the metabase of the shard when the GC worker starts
gcStored(locked) ==
  IF locked THEN dbLock(lifePut(EmptyDB, GCObjs \cup {LockAddr}), LockAddr, GCLockTargets)
            ELSE lifePut(EmptyDB, GCObjs)

InitGC ==
  /\ tgt = NoTarget
  /\ acl = NoACL
  /\ payload = {}
  /\ last = NoLast
  /\ rf = NoRefill
  /\ eng = NoEngine
  /\ shd = NoShard
  /\ lc = NoLife
  /\ \E locked \in BOOLEAN :
       /\ blobs = GCObjs \cup (IF locked THEN {LockAddr} ELSE {})
       /\ db = gcStored(locked)
  /\ \E exp \in [GCObjs \cup {LockAddr} -> 1..MaxEpoch] : gc = [NoGC EXCEPT !.exp = exp]

\* the epoch notifier broadcasts NewEpoch; due notes the objects that are
\* expired and not locked at this event
GCNewEpoch ==
  /\ gc.epoch < MaxEpoch
  /\ gc' = [gc EXCEPT !.epoch = @ + 1, !.queue = Append(@, gc.epoch + 1),
                      !.due = @ \cup expiredObjects(db, gc.exp, gc.epoch + 1)]
  /\ UNCHANGED <<blobs, payload, db, last, rf, eng, shd, lc, tgt, acl>>

\* the worker takes the next event and cancels the handlers of the previous
GCListen ==
  /\ gc.pc = "listen"
  /\ gc.queue # <<>>
  /\ gc' = [gc EXCEPT !.pc = "wait", !.cur = Head(gc.queue), !.queue = Tail(@),
                      !.cancelled = @ \cup {t.epoch : t \in gc.tasks}]
  /\ UNCHANGED <<blobs, payload, db, last, rf, eng, shd, lc, tgt, acl>>

\* the worker starts the handlers of the event it took
GCStart ==
  /\ gc.pc = "wait"
  /\ prevGroupDone(gc)
  /\ gc' = [gc EXCEPT !.pc = "listen", !.tasks = @ \cup gcTasksOf(gc.cur)]
  /\ UNCHANGED <<blobs, payload, db, last, rf, eng, shd, lc, tgt, acl>>

GCHandled(r) ==
  /\ gc' = r.g
  /\ db' = r.d
  /\ UNCHANGED <<blobs, payload, last, rf, eng, shd, lc, tgt, acl>>

\* one step of a handler in flight
GCHandle(t, batch) ==
  /\ t \in gc.tasks
  /\ GCHandled(gcHandler(gc, db, t, batch))

\* removeGarbage: a batch of the graveyard is deleted from the blob store and,
\* in one transaction, from the metabase
GCRemoved(batch, r) ==
  /\ blobs' = blobs \ batch
  /\ db' = r.db
  /\ UNCHANGED <<payload, last, rf, eng, shd, lc, gc, tgt, acl>>

GCRemove(batch) ==
  /\ batch \in gcBatches(DOMAIN db.graveyard)
  /\ \E addrs \in {CHOOSE q \in iterateOrders(batch) : TRUE} :
       \E r \in {boltUpdate(db, deleteGroup(db, addrs))} : GCRemoved(batch, r)

NextGC ==
  \/ GCNewEpoch
  \/ GCListen
  \/ GCStart
  \/ \E h \in Handlers, e \in 1..MaxEpoch, pc \in {"scan", "work"},
        todo \in SUBSET GCObjs, batch \in gcBatches(GCObjs) :
       GCHandle([h |-> h, epoch |-> e, pc |-> pc, todo |-> todo], batch)
  \/ \E batch \in gcBatches(GCObjs \cup {LockAddr}) : GCRemove(batch)

SpecGC == InitGC /\ [][NextGC]_vars

\* the remover can act: the graveyard holds an address, and removing it
\* changes the graveyard
GCRemoveEnabled == DOMAIN db.graveyard # {}

\* weak fairness of the remover, WF_vars(\E batch : GCRemove(batch)), with
\* its ENABLED written as GCRemoveEnabled
GCRemoveFair ==
  \/ []<>(~GCRemoveEnabled)
  \/ []<><<\E batch \in gcBatches(GCObjs \cup {LockAddr}) : GCRemove(batch)>>_vars

\* the worker, the handlers and the remover keep running; the notifier is
\* not bound to broadcast
SpecGCFair ==
  /\ SpecGC
  /\ WF_vars(GCListen)
  /\ WF_vars(GCStart)
  /\ WF_vars(\E t \in gc.tasks, batch \in gcBatches(GCObjs) : GCHandle(t, batch))
  /\ GCRemoveFair

(***************************************************************************)
(* The put service's localTarget: WriteHeader takes the object, Write      *)
(* appends to the payload buffer, Close hands the object to the local      *)
(* storage.                                                                *)
(***************************************************************************)
\* the ids of the objects streamed to the target
StreamIDs == {"o1", "o2"}

\* the byte slices passed to Write
Slices == {<<>>, <<1>>, <<2>>, <<1, 2>>}

\* the objects passed to WriteHeader: the header of a streamed object, whose
\* payload arrives through Write
HeaderObjs == {[id |-> i, payload |-> <<>>] : i \in StreamIDs}

\* localTarget.WriteHeader
targetWriteHeader(t, obj) == [t EXCEPT !.obj = obj, !.payload = <<>>]

\* localTarget.Write
targetWrite(t, p) == [t EXCEPT !.payload = @ \o p]

\* localTarget.Close: put is the object passed to storage.Put, putErr what
\* storage.Put returned
targetClose(t, putErr) ==
  IF putErr # "nil"
    THEN [t EXCEPT !.put = t.obj, !.ids = NoID,
                   !.err = "could not put object to local storage"]
    ELSE [t EXCEPT !.put = t.obj, !.ids = t.obj.id, !.err = "nil"]

InitTarget ==
  /\ tgt = NoTarget
  /\ acl = NoACL
  /\ gc = NoGC
  /\ blobs = {}
  /\ payload = {}
  /\ db = EmptyDB
  /\ last = NoLast
  /\ rf = NoRefill
  /\ eng = NoEngine
  /\ shd = NoShard
  /\ lc = NoLife

TgtWriteHeader(obj) ==
  /\ tgt.pc = "new"
  /\ tgt' = [targetWriteHeader(tgt, obj) EXCEPT !.pc = "header", !.writes = <<>>]
  /\ UNCHANGED <<blobs, payload, db, last, rf, eng, shd, lc, gc, acl>>

TgtWrite(p) ==
  /\ tgt.pc = "header"
  /\ Len(tgt.writes) < MaxWrites
  /\ tgt' = [targetWrite(tgt, p) EXCEPT !.writes = Append(@, p)]
  /\ UNCHANGED <<blobs, payload, db, last, rf, eng, shd, lc, gc, acl>>

TgtClose(putErr) ==
  /\ tgt.pc = "header"
  /\ tgt' = [targetClose(tgt, putErr) EXCEPT !.pc = "closed"]
  /\ UNCHANGED <<blobs, payload, db, last, rf, eng, shd, lc, gc, acl>>

NextTarget ==
  \/ \E obj \in HeaderObjs : TgtWriteHeader(obj)
  \/ \E p \in Slices : TgtWrite(p)
  \/ \E putErr \in {"nil", "storage"} : TgtClose(putErr)

SpecTarget == InitTarget /\ [][NextTarget]_vars

(***************************************************************************)
(* The object ACL service.  Every request is checked (container id,        *)
(* request info, basic ACL, extended ACL) before the next service of the   *)
(* pipeline is called; the parts of a put stream are checked in Send.  The *)
(* answers of the container source, the classifier, the ACL checker and    *)
(* the next service are inputs of a request.                               *)
(***************************************************************************)
\* the operations checked before the next service is called
CheckedOps == {"Get", "Head", "Search", "Delete", "GetRange", "GetRangeHash"}

\* the operations whose next service answers through a stream
StreamOps == {"Get", "Search", "GetRange"}

\* the verb of the session token against the operation of the request
ACLTokens == {"none", "same", "compatible", "incompatible", "unknown"}

\* the requests of an operation other than Put
RequestIns(op) ==
  [part : {"none"}, cid : BOOLEAN, owner : {TRUE}, cnr : {"ok", "err", "noOwner"},
   role : {"User", "Unknown", "err"}, token : ACLTokens, basic : BOOLEAN,
   sticky : {TRUE}, eacl : BOOLEAN, next : {"ok", "fail"},
   respEacl : IF op = "Head" THEN BOOLEAN ELSE {TRUE}]

\* the requests sent on a put stream
PutIns ==
  [part : {"nilBody", "init", "chunk"}, cid : BOOLEAN, owner : BOOLEAN,
   cnr : {"ok", "err", "noOwner"}, role : {"User", "Unknown", "err"},
   token : ACLTokens, basic : BOOLEAN, sticky : BOOLEAN, eacl : BOOLEAN,
   next : {"ok", "fail"}, respEacl : {TRUE}]

\* Service.findRequestInfo: the error it returns
findRequestInfo(in) ==
  IF in.cnr = "err" THEN "container"
  ELSE IF in.cnr = "noOwner" THEN "missing owner in container descriptor"
  ELSE IF in.role = "err" THEN "classify"
  ELSE IF in.role = "Unknown" THEN "ErrUnknownRole"
  ELSE IF in.token = "incompatible" THEN "ErrInvalidVerb"
  ELSE "nil"

\* the checks of a request that leave out the extended ACL
requestChecksBasicOnly(in) ==
  IF ~in.cid THEN "containerID"
  ELSE IF findRequestInfo(in) # "nil" THEN findRequestInfo(in)
  ELSE IF ~in.basic THEN "basicACLErr"
  ELSE "nil"

\* the checks every operation makes before it calls the next service: the
\* error returned, nil when the request passed
requestChecks(in) ==
  IF ~in.cid THEN "containerID"
  ELSE IF findRequestInfo(in) # "nil" THEN findRequestInfo(in)
  ELSE IF ~in.basic THEN "basicACLErr"
  ELSE IF ~in.eacl THEN "eACLErr"
  ELSE "nil"

\* what the next service returns
nextAnswer(op, in) ==
  IF in.next = "ok"
    THEN [resp |-> IF op \in StreamOps THEN "nil" ELSE "response", err |-> "nil"]
    ELSE [resp |-> "nil", err |-> "next"]

aclResult(called, resp, err) == [called |-> called, resp |-> resp, err |-> err]

\* Service.Head after the checks passed and next.Head returned n
serviceHead(in, n) ==
  IF n.err = "nil" /\ ~in.respEacl
    THEN aclResult(TRUE, n.resp, "eACLErr")
    ELSE aclResult(TRUE, n.resp, n.err)

\* Service.Get, Head, Search, Delete, GetRange, GetRangeHash
serviceCall(op, in) ==
  IF requestChecks(in) # "nil" THEN aclResult(FALSE, "nil", requestChecks(in))
  ELSE IF op = "Head" THEN serviceHead(in, nextAnswer(op, in))
  ELSE aclResult(TRUE, nextAnswer(op, in).resp, nextAnswer(op, in).err)

\* the checks of an init part of a put stream
putInitChecks(in) ==
  IF ~in.cid THEN "containerID"
  ELSE IF ~in.owner THEN "owner"
  ELSE IF findRequestInfo(in) # "nil" THEN findRequestInfo(in)
  ELSE IF ~in.basic \/ ~in.sticky THEN "basicACLErr"
  ELSE IF ~in.eacl THEN "eACLErr"
  ELSE "nil"

\* a Send that does not make the sticky-bit check
putSendNoSticky(in) ==
  IF in.part = "nilBody" THEN aclResult(FALSE, "nil", "ErrMalformedRequest")
  ELSE IF in.part = "init" /\ putInitChecks([in EXCEPT !.sticky = TRUE]) # "nil"
    THEN aclResult(FALSE, "nil", putInitChecks([in EXCEPT !.sticky = TRUE]))
  ELSE aclResult(TRUE, "nil", nextAnswer("Put", in).err)

\* putStreamBasicChecker.Send
putSend(in) ==
  IF in.part = "nilBody" THEN aclResult(FALSE, "nil", "ErrMalformedRequest")
  ELSE IF in.part = "init" /\ putInitChecks(in) # "nil"
    THEN aclResult(FALSE, "nil", putInitChecks(in))
  ELSE aclResult(TRUE, "nil", nextAnswer("Put", in).err)

InitACL ==
  /\ tgt = NoTarget
  /\ acl = NoACL
  /\ gc = NoGC
  /\ blobs = {}
  /\ payload = {}
  /\ db = EmptyDB
  /\ last = NoLast
  /\ rf = NoRefill
  /\ eng = NoEngine
  /\ shd = NoShard
  /\ lc = NoLife

\* the service has returned r for the request
ACLDone(op, in, r) ==
  /\ acl.pc = "idle"
  /\ acl' = [acl EXCEPT !.pc = "done", !.op = op, !.in = in, !.called = r.called,
                        !.resp = r.resp, !.err = r.err]
  /\ UNCHANGED <<blobs, payload, db, last, rf, eng, shd, lc, gc, tgt>>

ACLRequest(op, in) == ACLDone(op, in, serviceCall(op, in))

\* Service.Put: the stream of the next service, wrapped
ACLPut(next) ==
  /\ acl.pc = "idle"
  /\ acl.stream = "none"
  /\ acl' = [acl EXCEPT !.pc = "done", !.op = "Put", !.called = TRUE,
                        !.in = [NoACLIn EXCEPT !.next = next],
                        !.stream = IF next = "ok" THEN "open" ELSE "none",
                        !.err = IF next = "ok" THEN "nil" ELSE "next"]
  /\ UNCHANGED <<blobs, payload, db, last, rf, eng, shd, lc, gc, tgt>>

ACLPutSend(in) ==
  /\ acl.stream = "open"
  /\ ACLDone("PutSend", in, putSend(in))

\* putStreamBasicChecker.CloseAndRecv
ACLPutClose(next) ==
  /\ acl.pc = "idle"
  /\ acl.stream = "open"
  /\ acl' = [acl EXCEPT !.pc = "done", !.op = "PutClose", !.called = TRUE,
                        !.in = [NoACLIn EXCEPT !.next = next], !.stream = "none",
                        !.resp = nextAnswer("Put", [NoACLIn EXCEPT !.next = next]).resp,
                        !.err = nextAnswer("Put", [NoACLIn EXCEPT !.next = next]).err]
  /\ UNCHANGED <<blobs, payload, db, last, rf, eng, shd, lc, gc, tgt>>

\* the caller has the answer; the service is ready for the next request
ACLReturn ==
  /\ acl.pc = "done"
  /\ acl' = [NoACL EXCEPT !.stream = acl.stream]
  /\ UNCHANGED <<blobs, payload, db, last, rf, eng, shd, lc, gc, tgt>>

\* a request is taken when the service has none in hand
NextACL ==
  \/ acl.pc = "idle" /\ \E op \in CheckedOps : \E in \in RequestIns(op) : ACLRequest(op, in)
  \/ \E next \in {"ok", "fail"} : ACLPut(next)
  \/ acl.pc = "idle" /\ acl.stream = "open" /\ \E in \in PutIns : ACLPutSend(in)
  \/ \E next \in {"ok", "fail"} : ACLPutClose(next)
  \/ ACLReturn

SpecACL == InitACL /\ [][NextACL]_vars

(***************************************************************************)
(* Properties.                                                             *)
(***************************************************************************)
Occurrences(q, x) == Cardinality({i \in 1..Len(q) : q[i] = x})

RemovedReported == {s \in Shards : IsErrRemoved(eng.ans[s].err)}

\* C1: when engine Exists has returned, it returned AlreadyRemoved if and only
\* if some shard's Exists reports AlreadyRemoved, whatever the order in which
\* the shards are visited.
C1_ExistsRemovedIffSomeShard ==
  eng.pc = "done" => (IsErrRemoved(eng.result.err) <=> RemovedReported # {})

\* C1 witness: AlreadyRemoved was returned although a shard visited earlier
\* reported that the object exists.
C1_Witness ==
  /\ eng.pc = "done"
  /\ IsErrRemoved(eng.result.err)
  /\ Len(eng.visited) >= 2
  /\ eng.ans[eng.visited[1]] = [res |-> "true", err |-> "nil"]

\* C2: when no shard reports AlreadyRemoved, engine Exists returns without
\* error, and returns true if and only if some shard's Exists returned true.
C2_ExistsOrReduction ==
  (eng.pc = "done" /\ RemovedReported = {}) =>
     /\ eng.result.err = "nil"
     /\ (eng.result.res = "true") <=> (\E s \in Shards : eng.ans[s].res = "true")
     /\ eng.result.res \in {"true", "false"}

\* C2 witness: true was returned from the answer of the last shard visited,
\* after a shard that answered false and a shard that failed.
C2_Witness ==
  /\ eng.pc = "done"
  /\ eng.result = [res |-> "true", err |-> "nil"]
  /\ Len(eng.visited) = NumShards
  /\ eng.ans[eng.visited[1]] = [res |-> "false", err |-> "nil"]
  /\ eng.ans[eng.visited[NumShards]].res = "true"
  /\ \A k \in 1..(NumShards - 1) : eng.ans[eng.visited[k]].res # "true"

\* what Exists, Get and Head answer for a graveyard address
AnswersRemoved(d, a) ==
  /\ IsErrRemoved(dbExists(d, a).err)
  /\ \A raw \in BOOLEAN : /\ IsErrRemoved(dbGet(d, a, TRUE, raw).err)
                          /\ IsErrRemoved(dbHead(d, a, raw).err)

\* C3: every graveyard address is answered AlreadyRemoved by Exists, Get and
\* Head, with or without a stored header, and stays so in every next state
\* unless a successful Delete that names the address removed it.
C3_GraveyardIsAlreadyRemoved ==
  [][\A a \in Addrs :
       InGraveyard(db, a) =>
         /\ AnswersRemoved(db, a)
         /\ \/ InGraveyard(db', a) /\ AnswersRemoved(db', a)
            \/ last'.op = "Delete" /\ last'.err = "nil" /\ a \in last'.addrs]_vars

\* C3 witness: after Put and Inhume the address is in the graveyard while its
\* header is still stored.
C3_Witness ==
  /\ last.op = "Inhume" /\ last.err = "nil"
  /\ \E a \in last.targets : a \in db.primary /\ InGraveyard(db, a)

\* C4: an Inhume with a locked target fails with ObjectLocked and changes no
\* bucket; in particular no target enters the graveyard and Exists answers
\* for every target as before.
C4_InhumeLockedNoMutation ==
  [][(last'.op = "Inhume" /\ \E t \in last'.targets : objectLocked(db, t)) =>
       /\ last'.err = "ObjectLocked"
       /\ db' = db
       /\ \A t \in last'.targets : /\ InGraveyard(db', t) <=> InGraveyard(db, t)
                                   /\ dbExists(db', t) = dbExists(db, t)]_vars

\* C4 witness: an Inhume of a locked stored object together with an unlocked
\* member failed, and Exists of the locked object returns true.
C4_Witness ==
  /\ last.op = "Inhume" /\ last.err = "ObjectLocked"
  /\ \E t \in last.targets : /\ objectLocked(db, t)
                             /\ dbExists(db, t) = [exists |-> TRUE, err |-> "nil"]
  /\ \E t \in last.targets : ~objectLocked(db, t) /\ ~InGraveyard(db, t)

StoredChildren(d, p) == {c \in Headers(d) : ParentOf(c) = p}

ParentEntryAbsent(d, p) ==
  /\ p \notin DOMAIN d.parent
  /\ p \notin d.root
  /\ p \notin d.fkbt
  /\ p \notin d.small
  /\ p \notin d.toMove
  /\ dbGet(d, p, FALSE, FALSE).err = "ObjectNotFound"

ParentReachable(d, p) ==
  /\ p \in DOMAIN d.parent
  /\ Range(d.parent[p]) = StoredChildren(d, p)
  /\ dbGet(d, p, FALSE, FALSE) = [obj |-> Header(p), err |-> "nil"]
  /\ ~InGraveyard(d, p) => dbHead(d, p, FALSE) = [obj |-> Header(p), err |-> "nil"]

\* C5: after a successful Delete, a parent none of whose children is stored
\* any more has no entry left, and a parent with a child still stored keeps
\* its entry and is returned by Get and Head.
C5_ParentReferenceCounting ==
  (last.op = "Delete" /\ last.err = "nil") =>
     IF StoredChildren(db, ParentAddr) = {}
       THEN ParentEntryAbsent(db, ParentAddr)
       ELSE ParentReachable(db, ParentAddr)

\* C5 witness: a Delete removed one of the two children; the parent was
\* counted with cur = 1 of all = 2 and is still reachable.
C5_Witness ==
  /\ last.op = "Delete" /\ last.err = "nil"
  /\ ParentAddr \in DOMAIN last.refs
  /\ last.refs[ParentAddr].cur = 1 /\ last.refs[ParentAddr].all = 2
  /\ ParentReachable(db, ParentAddr)

\* the addresses of a batch whose stored header names parent p
ChildrenInBatch(d, addrs, p) == {a \in addrs : a \in Headers(d) /\ ParentOf(a) = p}

\* C6: in a successful Delete the counter has one entry per parent that a
\* stored address of the batch references; its all is the length of the
\* parent's child list before the call, its cur the number of such addresses;
\* a parent with cur = all is removed once in the batch, any other not at all.
C6_SharedCounterPerParent ==
  [][(last'.op = "Delete" /\ last'.err = "nil") =>
       /\ DOMAIN last'.refs = {p \in Addrs : ChildrenInBatch(db, last'.addrs, p) # {}}
       /\ \A p \in DOMAIN last'.refs :
            /\ last'.refs[p].all = parentLength(db, p)
            /\ last'.refs[p].cur = Cardinality(ChildrenInBatch(db, last'.addrs, p))
            /\ Occurrences(last'.removed, p) =
                 (IF last'.refs[p].cur = last'.refs[p].all THEN 1 ELSE 0)
            /\ last'.refs[p].cur = last'.refs[p].all => ParentEntryAbsent(db', p)]_vars

\* C6 witness: one batch deleted both children; they shared the counter
\* (cur = all = 2) and the parent was removed once.
C6_Witness ==
  /\ last.op = "Delete" /\ last.err = "nil"
  /\ ParentAddr \in DOMAIN last.refs
  /\ last.refs[ParentAddr] = [all |-> 2, cur |-> 2, obj |-> Header(ParentAddr)]
  /\ last.removed = <<ParentAddr>>

\* C7: a Delete that returns an error leaves every bucket as before the call.
C7_DeleteAllOrNothing ==
  [][(last'.op = "Delete" /\ last'.err # "nil") => db' = db]_vars

\* C7 witness: a Delete failed after it had processed an earlier address of
\* the batch and changed buckets inside the transaction.
C7_Witness ==
  /\ last.op = "Delete" /\ last.err # "nil"
  /\ last.done >= 1
  /\ last.dirty
  /\ \E a \in last.addrs : a \in Headers(db)

Cids == {"c1", "c2"}

\* what Exists, Get, Head and Select answer on metabase d, for every address
Observe(d) ==
  [exists |-> [a \in Addrs |-> dbExists(d, a)],
   get |-> [a \in Addrs, raw \in BOOLEAN |-> dbGet(d, a, TRUE, raw)],
   head |-> [a \in Addrs, raw \in BOOLEAN |-> dbHead(d, a, raw)],
   select |-> [cid \in Cids, rootOnly \in BOOLEAN |-> dbSelect(d, cid, rootOnly)]]

\* the addresses listed in the payload of the stored tombstone
StoredTombMembers ==
  IF TombAddr \in blobs
    THEN {a \in Addrs : a[1] = TombAddr[1] /\ a[2] \in payload}
    ELSE {}

HeadReturnsHeader(d, a) ==
  \A raw \in BOOLEAN : dbHead(d, a, raw) = [obj |-> Header(a), err |-> "nil"]

HeadReturnsRemoved(d, a) ==
  \A raw \in BOOLEAN : IsErrRemoved(dbHead(d, a, raw).err)

RefillReturned == rf.pc = "done" /\ rf.err = "nil"

\* C8 as stated: after refill every stored regular object and the stored
\* tombstone object are returned by Head with their header, and Head of every
\* member of the stored tombstone returns AlreadyRemoved.
C8_Original ==
  RefillReturned =>
    /\ \A a \in blobs : TypeOf(a) \in {"Regular", "Tombstone"} =>
                          HeadReturnsHeader(db, a)
    /\ \A m \in StoredTombMembers : HeadReturnsRemoved(db, m)

\* C8 amended: after refill every stored regular or tombstone object whose
\* address is not a member of the stored tombstone is returned by Head with
\* its header, and Head of every member of the stored tombstone returns
\* AlreadyRemoved, whether or not the member is stored.
C8_RefillRestoresHead ==
  RefillReturned =>
    /\ \A a \in blobs \ StoredTombMembers :
         TypeOf(a) \in {"Regular", "Tombstone"} => HeadReturnsHeader(db, a)
    /\ \A m \in StoredTombMembers : HeadReturnsRemoved(db, m)

\* C8 witness: the reset metabase was refilled from a blob store that holds
\* the tombstone, a member, an object that is not a member, and an object of
\* another container with a member's object id; one member is not stored.
C8_Witness ==
  /\ RefillReturned
  /\ rf.n = 1
  /\ TombAddr \in blobs
  /\ \E m \in StoredTombMembers : m \in blobs /\ HeadReturnsRemoved(db, m)
  /\ \E m \in StoredTombMembers : m \notin blobs /\ HeadReturnsRemoved(db, m)
  /\ \E a \in blobs \ StoredTombMembers :
       /\ a # TombAddr
       /\ a[1] = TombAddr[1]
       /\ HeadReturnsHeader(db, a)
  /\ \E a \in blobs : /\ a[1] # TombAddr[1]
                      /\ a[2] \in payload
                      /\ HeadReturnsHeader(db, a)

\* state1 of the refill: the graveyard holds the members of the stored
\* tombstone and nothing else
FromPutsAndInhumes(d) == DOMAIN d.graveyard = StoredTombMembers

\* C9: the state after Reset and Refill answers Exists, Get, Head and Select
\* as the state reached by the Puts and the Inhume of the stored tombstone
\* did, and one more Refill leaves these answers unchanged.
C9_RefillIdempotent ==
  RefillReturned =>
    /\ (rf.n = 1 /\ FromPutsAndInhumes(rf.snap)) => Observe(db) = Observe(rf.snap)
    /\ rf.n >= 2 => Observe(db) = Observe(rf.snap)

\* the orders in which the blob store may yield the stored objects
BlobOrders ==
  {q \in SeqsOfLen(blobs, Cardinality(blobs)) : Range(q) = blobs}

\* C10: the metabase a refill produced answers Exists, Get, Head and Select
\* as the metabase produced by a refill in any other order of the same blob
\* store.
C10_RefillOrderIndependent ==
  RefillReturned =>
    \A order \in BlobOrders :
      Observe(refillMetabase(db, order).db) = Observe(db)

\* C11: when the payload of the stored tombstone cannot be unmarshalled, the
\* refill skips it: refillMetabase returns no error and every other stored
\* object is indexed and returned by Head.
C11_UndecodableSkipped ==
  (rf.pc = "done" /\ payload = BadPayload /\ TombAddr \in blobs) =>
     /\ rf.err = "nil"
     /\ \A a \in blobs \ {TombAddr} : HeadReturnsHeader(db, a)

RECURSIVE Reverse(_)
Reverse(q) == IF q = <<>> THEN <<>> ELSE Append(Reverse(Tail(q)), Head(q))

\* C12: while a storage component is closed the GC is stopped, and no sweep
\* or epoch handler of the GC ran with a component closed.
C12_GCStoppedBeforeClose ==
  /\ (\E c \in Components : lc.comp[c] = "closed") => lc.gc = "stopped"
  /\ \A i \in 1..Len(lc.log) : lc.log[i] = {}

\* C13: when Close has returned, the components were closed in the reverse
\* of the order in which Open opened them.
C13_CloseReversesOpen ==
  lc.pc = "closed" => lc.closed = Reverse(lc.opened)

\* C14: in every state, Get of an object whose Put succeeded returns the
\* object as it was put, header and payload, small or big, child or not, with
\* or without a write cache, staged, being flushed or flushed.
C14_GetAfterPut ==
  /\ \A a \in shd.put : shardGet(shd, db, a) = Found(Object(a))
  /\ (shd.op = "Get" /\ shd.addr \in shd.put) => shd.res = Found(Object(shd.addr))

\* C14 witness: a Get returned a small child that is only staged in the
\* write cache, after the big object was put to the blob store.
C14_Witness ==
  /\ shd.op = "Get"
  /\ shd.hasWC
  /\ shd.addr \in shd.cache
  /\ shd.addr \notin Headers(db)
  /\ ParentOf(shd.addr) = ParentAddr
  /\ shd.res = Found(Object(shd.addr))
  /\ \E b \in shd.put : ~IsSmall(b) /\ shardGet(shd, db, b) = Found(Object(b))

\* C15: engine Exists issued after the successful Put of an object returns
\* true without error, whatever the other shards answer and in whatever order
\* the shards are visited, also while the object is only staged in the write
\* cache.
C15_ExistsAfterPut ==
  /\ \A a \in shd.put : /\ shardExists(shd, db, a).exists
                        /\ shardExists(shd, db, a).err = "nil"
  /\ (shd.op = "EngineExists" /\ shd.addr \in shd.put) =>
       (shd.res.exists /\ shd.res.err = "nil")

\* C15 witness: engine Exists returned true for an object that is only staged
\* in the write cache.
C15_Witness ==
  /\ shd.op = "EngineExists"
  /\ shd.addr \in shd.cache
  /\ shd.addr \notin Headers(db)
  /\ shd.fl.pc = "idle"
  /\ shd.res.exists /\ shd.res.err = "nil"

\* the children of the virtual parent whose Put to the shard succeeded
PutChildren == {c \in shd.put : ParentOf(c) = ParentAddr}

\* the SplitInfoError of the parent whose only known child is c
SplitInfoErrorOf(c) ==
  [Failed("SplitInfoError") EXCEPT
     !.si = [splitID |-> "S", lastPart |-> c[2], link |-> NoID]]

\* C17 as stated: whenever exactly one child of the parent has been put, Get
\* of the parent and Head of the parent with raw=true fail with SplitInfoError
\* carrying splitID=S, lastPart=oid(child) and no link.
C17_Original ==
  \A c \in PutChildren : PutChildren = {c} =>
    /\ shardGet(shd, db, ParentAddr) = SplitInfoErrorOf(c)
    /\ shardHead(shd, db, ParentAddr, TRUE) = SplitInfoErrorOf(c)

\* C17 amended: when exactly one child of the parent has been put, Get of the
\* parent and Head of the parent with raw=true fail with SplitInfoError
\* carrying splitID=S, lastPart=oid(child) and no link once the child's
\* metabase entry is installed, and with ObjectNotFound while the child is
\* only staged in the write cache.
C17_SplitInfoOnceIndexed ==
  \A c \in PutChildren : PutChildren = {c} =>
    /\ c \in Headers(db) =>
         /\ shardGet(shd, db, ParentAddr) = SplitInfoErrorOf(c)
         /\ shardHead(shd, db, ParentAddr, TRUE) = SplitInfoErrorOf(c)
    /\ c \notin Headers(db) =>
         /\ c \in shd.cache
         /\ shardGet(shd, db, ParentAddr) = Failed("ObjectNotFound")
         /\ shardHead(shd, db, ParentAddr, TRUE) = Failed("ObjectNotFound")

\* C17 witness: on a shard with a write cache, Head of the parent with
\* raw=true returned the SplitInfoError of the only child put, after the flush
\* loop installed the child's metabase entry.
C17_Witness ==
  /\ shd.hasWC
  /\ PutChildren = {<<"c1", "o3">>}
  /\ shd.op = "Head" /\ shd.raw /\ shd.addr = ParentAddr
  /\ shd.res = SplitInfoErrorOf(<<"c1", "o3">>)
  /\ shardGet(shd, db, ParentAddr) = SplitInfoErrorOf(<<"c1", "o3">>)

\* C18 as stated: whenever a child of the virtual parent has been put, Head of
\* the parent with raw=false returns the parent's header, payload cut.
C18_Original ==
  PutChildren # {} =>
    shardHead(shd, db, ParentAddr, FALSE) = Found(CutPayload(Object(ParentAddr)))

\* C18 amended: when a child of the virtual parent has been put, Head of the
\* parent with raw=false returns the parent's header, payload cut, once the
\* metabase entry of a child is installed, and ObjectNotFound while every
\* child put is only staged in the write cache.
C18_ParentHeadOnceIndexed ==
  PutChildren # {} =>
    shardHead(shd, db, ParentAddr, FALSE) =
      IF PutChildren \cap Headers(db) # {}
        THEN Found(CutPayload(Object(ParentAddr)))
        ELSE Failed("ObjectNotFound")

\* C18 witness: on a shard with a write cache, Head of the parent with
\* raw=false returned the reconstructed parent header after the only child
\* put was flushed.
C18_Witness ==
  /\ shd.hasWC
  /\ Cardinality(PutChildren) = 1
  /\ PutChildren \subseteq Headers(db)
  /\ shd.op = "Head" /\ ~shd.raw /\ shd.addr = ParentAddr
  /\ shd.res = Found(CutPayload(Object(ParentAddr)))

\* C19: Head of a stored regular object, raw or not, returns the object put
\* with the payload cut, with and without a write cache, and no Head of any
\* address returns payload bytes.
C19_HeadCutsPayload ==
  /\ \A a \in shd.put, raw \in BOOLEAN :
       shardHead(shd, db, a, raw) = Found(CutPayload(Object(a)))
  /\ \A a \in ReadAddrs, raw \in BOOLEAN : shardHead(shd, db, a, raw).obj.payload = <<>>
  /\ shd.op = "Head" => shd.res.obj.payload = <<>>

\* C19 witness: Head returned the header of a small object staged in the
\* write cache, and Head of the big object stored without it also cuts the
\* payload.
C19_Witness ==
  /\ shd.op = "Head"
  /\ shd.addr \in shd.cache
  /\ shd.addr \notin Headers(db)
  /\ shd.res = Found(CutPayload(Object(shd.addr)))
  /\ Object(shd.addr).payload # <<>>
  /\ <<"c1", "o1">> \in shd.put

\* C16: a successful Delete that names the address of a stored object removes
\* its header, root, small and graveyard entries, and Exists of the address
\* then returns false without error (neither true nor AlreadyRemoved).
C16_DeleteThenExistsFalse ==
  [][(last'.op = "Delete" /\ last'.err = "nil") =>
       \A a \in last'.addrs \cap Headers(db) :
         /\ dbExists(db', a) = [exists |-> FALSE, err |-> "nil"]
         /\ a \notin Headers(db')
         /\ a \notin db'.root
         /\ a \notin db'.small
         /\ ~InGraveyard(db', a)]_vars

\* C16 witness: a successful Delete of one address found the object stored
\* (it counted the reference to the object's parent), removed it, and Exists
\* of the address is false without error.
C16_Witness ==
  /\ last.op = "Delete" /\ last.err = "nil"
  /\ last.addrs = {<<"c1", "o2">>}
  /\ last.dirty
  /\ ParentAddr \in DOMAIN last.refs
  /\ dbExists(db, <<"c1", "o2">>) = [exists |-> FALSE, err |-> "nil"]

\* the metabase the refill handler hands to meta.Put for the stored object a:
\* for the tombstone object, the metabase after its members were inhumed
RefillPutInput(a) ==
  IF TypeOf(a) = "Tombstone" THEN dbInhume(db, a, tombMembers(a)).db ELSE db

\* the handler reaches meta.Put for the stored object a
RefillReachesPut(a) ==
  TypeOf(a) = "Tombstone" =>
    /\ tombstoneUnmarshal(payload).err = "nil"
    /\ dbInhume(db, a, tombMembers(a)).err = "nil"

C21_InitOrderAndRefill ==
  [][(lc.pc = "init" /\ Len(lc'.inited) > Len(lc.inited)) =>
       /\ lc'.inited = SubSeq(<<"blobStor", "metaBase", "writeCache">>, 1, Len(lc'.inited))
       /\ Head(lc.todo) # "metaBase" => db' = db
       /\ (Head(lc.todo) = "metaBase" /\ ~lc.refill) => db' = db
       /\ (Head(lc.todo) = "metaBase" /\ lc.refill) =>
            /\ \E order \in iterateOrders(blobs) :
                 db' = refillIterate(dbReset(db), order).db
            /\ Headers(db') = blobs
            /\ DOMAIN db'.graveyard = {}]_vars

\* C21 witness: Init of a shard with a write cache has returned after a
\* refill that dropped the graveyard record the metabase held when Init was
\* called: the record of a stored object, made by a tombstone that the blob
\* store does not hold.
C21_Witness ==
  /\ lc.pc = "ready"
  /\ lc.refill
  /\ lc.inited = <<"blobStor", "metaBase", "writeCache">>
  /\ blobs = LifeObjs
  /\ InGraveyard(lc.snap, <<"c1", "o1">>)
  /\ db = lifeStored(LifeObjs, {})

\* the shards whose Exists returns an error other than AlreadyRemoved, and the
\* shards whose Exists returns no error
FailingShards == {s \in Shards : eng.ans[s].err = "other"}

SoundShards == {s \in Shards : eng.ans[s].err = "nil"}

\* C27: when no shard reports AlreadyRemoved, some shard fails with another
\* error and some shard answers without error, engine Exists returns without
\* error the OR of the results the shards returned (the OR of the answers of
\* the shards without error when no failing shard returned true with its
\* error), and the error of each failing shard is counted once.
C27_ShardErrorNotFatal ==
  (eng.pc = "done" /\ RemovedReported = {} /\ FailingShards # {} /\ SoundShards # {}) =>
     /\ eng.result.err = "nil"
     /\ (eng.result.res = "true") <=>
          (\E s \in Shards : eng.ans[s].res # "nil" /\ eng.ans[s].res = "true")
     /\ (\A s \in FailingShards : eng.ans[s].res # "true") =>
          ((eng.result.res = "true") <=> (\E s \in SoundShards : eng.ans[s].res = "true"))
     /\ \A s \in Shards : eng.errs[s] = IF s \in FailingShards THEN 1 ELSE 0

\* C27 witness: the first shard visited failed without a result, a later
\* shard answered true, and true was returned without error.
C27_Witness ==
  /\ eng.pc = "done"
  /\ eng.ans[eng.visited[1]] = [res |-> "nil", err |-> "other"]
  /\ eng.errs[eng.visited[1]] = 1
  /\ \E k \in 2..Len(eng.visited) : eng.ans[eng.visited[k]] = [res |-> "true", err |-> "nil"]
  /\ \A s \in FailingShards : eng.ans[s].res # "true"
  /\ eng.result = [res |-> "true", err |-> "nil"]

\* C28: when every shard's Exists returns an error other than AlreadyRemoved,
\* engine Exists returns an error.
C28_AllShardsFailIsError ==
  (eng.pc = "done" /\ FailingShards = Shards) => eng.result.err # "nil"

\* the position in the visiting order of the first shard that reports
\* AlreadyRemoved, NumShards when there is none
FirstRemoved ==
  IF \E k \in Shards : IsErrRemoved(eng.ans[eng.order[k]].err)
    THEN CHOOSE k \in Shards :
           /\ IsErrRemoved(eng.ans[eng.order[k]].err)
           /\ \A j \in 1..(k - 1) : ~IsErrRemoved(eng.ans[eng.order[j]].err)
    ELSE NumShards

\* C29: the shards visited are a prefix of the sorted order, each visited
\* once; the iteration goes on after every answer that is not AlreadyRemoved
\* and ends at the first shard that reports AlreadyRemoved.
C29_StopsOnlyOnRemoved ==
  /\ Len(eng.visited) <= NumShards
  /\ \A k \in 1..Len(eng.visited) : eng.visited[k] = eng.order[k]
  /\ \A k \in 1..Len(eng.visited) : Occurrences(eng.visited, eng.visited[k]) = 1
  /\ Len(eng.visited) <= FirstRemoved
  /\ eng.pc \in {"return", "done"} => Len(eng.visited) = FirstRemoved

\* C29 witness: the iteration went on after a shard that failed, ended at the
\* next shard, which reported AlreadyRemoved, and did not visit the shards
\* after it, one of which holds the object.
C29_Witness ==
  /\ eng.pc = "done"
  /\ Len(eng.visited) = 2
  /\ Len(eng.visited) < NumShards
  /\ eng.ans[eng.visited[1]].err = "other"
  /\ IsErrRemoved(eng.ans[eng.visited[2]].err)
  /\ \E s \in Shards : /\ Occurrences(eng.visited, s) = 0
                        /\ eng.ans[s] = [res |-> "true", err |-> "nil"]

\* the member list of the tombstone's payload, each id paired with the
\* container id of the tombstone object at address t
PayloadMembers(t) == {<<t[1], m>> : m \in payload \cap MemberIDs}

\* C30: the refill step that meets the tombstone object, its payload being
\* decodable, changes the graveyard by exactly the records of the payload's
\* member ids in the tombstone's container, each with the tombstone's address
\* as value; during the refill the graveyard holds no address of another
\* container.
C30_RefillInhumesMembers ==
  [][/\ (rf.pc = "iterate" /\ TombAddr \in rf.todo \ rf'.todo /\ payload # BadPayload) =>
          /\ DOMAIN db'.graveyard = DOMAIN db.graveyard \cup PayloadMembers(TombAddr)
          /\ \A x \in DOMAIN db'.graveyard :
               db'.graveyard[x] = IF x \in PayloadMembers(TombAddr) THEN TombAddr
                                  ELSE db.graveyard[x]
     /\ (rf.pc = "iterate" /\ TombAddr \notin rf.todo \ rf'.todo) =>
          db'.graveyard = db.graveyard
     /\ rf'.pc # "idle" =>
          \A x \in DOMAIN db'.graveyard : x[1] = TombAddr[1] /\ x \in PayloadMembers(TombAddr)]_vars

\* C30 witness: the refill met the tombstone, whose payload lists the id o1,
\* and the object with this id in the tombstone's container is in the
\* graveyard under the tombstone's address while the stored object with the
\* same id in the other container has its header and no graveyard record.
C30_Witness ==
  /\ rf.pc \in {"iterate", "done"}
  /\ rf.err = "nil"
  /\ TombAddr \in blobs \ rf.todo
  /\ "o1" \in payload
  /\ InGraveyard(db, <<"c1", "o1">>)
  /\ db.graveyard[<<"c1", "o1">>] = TombAddr
  /\ <<"c2", "o1">> \in Headers(db)
  /\ ~InGraveyard(db, <<"c2", "o1">>)

\* the step is a call of a shard operation (the flush loop is not)
OpsCalled == shd'.calls # shd.calls

\* the blob store, the metabase and the write cache are what they were
OpsStoresUnchanged ==
  /\ blobs' = blobs
  /\ db' = db
  /\ shd'.cache = shd.cache /\ shd'.pool = shd.pool /\ shd'.tree = shd.tree
  /\ shd'.put = shd.put /\ shd'.fl = shd.fl

\* C24: every Put, Delete, Inhume, Lock and ToMoveIt called while the mode is
\* not ReadWrite returns ReadOnlyMode and changes neither the blob store nor
\* the metabase nor the write cache.
C24_ReadOnlyRejectsWrites ==
  [][(OpsCalled /\ shd.mode # "ReadWrite" /\ shd'.op \in MutatingOps) =>
       /\ shd'.res.err = "ReadOnlyMode"
       /\ OpsStoresUnchanged]_vars

\* C24 witness: Delete of a stored object that is inhumed and marked to move
\* returned ReadOnlyMode on a read-only shard, and the object is still
\* stored.
C24_Witness ==
  /\ shd.mode = "ReadOnly"
  /\ shd.op = "Delete"
  /\ shd.res.err = "ReadOnlyMode"
  /\ shd.addr \in Headers(db) \cap blobs
  /\ InGraveyard(db, shd.addr)
  /\ shd.addr \in db.toMove

\* C25: each error of the shard that the engine reports increments the
\* shard's counter by one and, when the counter reaches errorThreshold,
\* demotes the shard to Degraded, not before; a degraded shard answers reads
\* and rejects every mutating operation, and it leaves Degraded only when its
\* mode is set by hand.
C25_DemotedAtThreshold ==
  [][/\ (OpsCalled /\ shd'.op = "Get" /\ shd'.res.err = "IO") =>
          /\ shd'.errs = shd.errs + 1
          /\ shd'.mode = IF shd'.errs >= errorThreshold THEN "Degraded" ELSE shd.mode
     /\ (OpsCalled /\ shd'.res.err # "IO") => shd'.errs = shd.errs
     /\ (shd.mode = "Degraded" /\ shd'.mode # "Degraded") => shd'.op = "SetMode"
     /\ (OpsCalled /\ shd.mode = "Degraded" /\ shd'.op \in MutatingOps) =>
          (shd'.res.err = "ReadOnlyMode" /\ OpsStoresUnchanged)
     /\ (OpsCalled /\ shd.mode = "Degraded" /\ shd'.op = "Get" /\ shd'.res.err # "IO") =>
          shd'.res = shardGet(shd, db, shd'.addr)]_vars

\* C25 witness: the shard was demoted when its counter reached errorThreshold
\* and, degraded, it returned a stored object to a Get.
C25_Witness ==
  /\ shd.mode = "Degraded"
  /\ shd.errs = errorThreshold
  /\ shd.op = "Get"
  /\ shd.res = Found(Object(shd.addr))

C22_OneEpochInFlight ==
  /\ \A t1 \in gc.tasks, t2 \in gc.tasks : t1.epoch = t2.epoch
  /\ \A t \in gc.tasks : t.epoch \notin gc.cancelled => t.epoch = gc.cur
  /\ gc.pc = "wait" => \A t \in gc.tasks : t.epoch \in gc.cancelled

\* C22 witness: the worker took the event of epoch 2 while
\* collectExpiredObjects of epoch 1 was between two batches; the handler is
\* cancelled and the worker waits for it.
C22_Witness ==
  /\ gc.pc = "wait"
  /\ gc.cur = 2
  /\ \E t \in gc.tasks : /\ t.h = "collectExpiredObjects"
                         /\ t.epoch = 1
                         /\ t.pc = "work"
                         /\ t.todo # {}
                         /\ t.epoch \in gc.cancelled

\* the object is deleted from the blob store and from the metabase
GCCollected(a) == a \notin blobs /\ a \notin Headers(db) /\ ~InGraveyard(db, a)

C34_DeleteClearsGraveyard ==
  last.op = "Delete" =>
    \A a \in last.addrs : /\ ~InGraveyard(db, a)
                          /\ ~IsErrRemoved(dbExists(db, a).err)

\* C35: in a successful Delete whose batch names an address more than once,
\* as in any other, each parent is counted once per stored child of the
\* batch, cur <= all, and a parent that still has a stored child is not
\* removed and keeps its entry.
C35_DuplicateCountedOnce ==
  [][(last'.op = "Delete" /\ last'.err = "nil") =>
       \A p \in DOMAIN last'.refs :
         /\ last'.refs[p].cur <= last'.refs[p].all
         /\ last'.refs[p].cur <= Cardinality(StoredChildren(db, p) \cap last'.addrs)
         /\ StoredChildren(db', p) # {} =>
              /\ p \notin Range(last'.removed)
              /\ p \in DOMAIN db'.parent
              /\ Range(db'.parent[p]) = StoredChildren(db', p)]_vars

\* C35 witness: a successful Delete named the child o2 twice while o3 was
\* stored; the parent was counted with cur = 1 of all = 2 and was not removed.
C35_Witness ==
  /\ last.op = "Delete" /\ last.err = "nil"
  /\ last.done = 2
  /\ last.addrs = {<<"c1", "o2">>}
  /\ ParentAddr \in DOMAIN last.refs
  /\ last.refs[ParentAddr].cur = 1 /\ last.refs[ParentAddr].all = 2
  /\ last.removed = <<>>
  /\ <<"c1", "o3">> \in Headers(db)
  /\ ParentAddr \in DOMAIN db.parent

\* C36: when a refill has returned nil and the blob store holds the lock
\* object, every member of the lock whose Inhume failed with ObjectLocked
\* before the reset is locked again: its Inhume fails with ObjectLocked.
C36_RefillRestoresLocks ==
  (rf.pc = "done" /\ rf.err = "nil" /\ LockAddr \in blobs) =>
     \A t \in lockMembers(LockAddr) :
       dbInhume(rf.snap, TombAddr, {t}).err = "ObjectLocked" =>
         dbInhume(db, TombAddr, {t}).err = "ObjectLocked"

\* Close has returned, with nil or with the error of a component's Close
CloseReturned == lc.pc = "closed" \/ (lc.pc = "failed" /\ lc.err = "could not close")

\* C37: once Close has returned, with or without error, the GC is stopped
\* and no sweep or epoch handler of the GC runs any more.
C37_CloseAlwaysStopsGC ==
  /\ [](CloseReturned => lc.gc = "stopped")
  /\ [][CloseReturned => lc'.log = lc.log]_vars

\* C38: in every state of an engine Exists the error counter of a shard is 1
\* when the shard was visited and its Exists returned an error other than
\* AlreadyRemoved, and 0 otherwise: an AlreadyRemoved answer is not counted,
\* any other error is counted once.
C38_RemovedNotReported ==
  \A s \in Shards :
    eng.errs[s] = IF /\ Occurrences(eng.visited, s) > 0
                     /\ eng.ans[s].err # "nil"
                     /\ ~IsErrRemoved(eng.ans[s].err)
                    THEN 1 ELSE 0

\* C38 witness: Exists returned AlreadyRemoved; the shard that answered
\* AlreadyRemoved has no error counted, a shard visited before it that
\* failed with another error has one.
C38_Witness ==
  /\ eng.pc = "done"
  /\ IsErrRemoved(eng.result.err)
  /\ \E k \in 1..Len(eng.visited) :
       /\ IsErrRemoved(eng.ans[eng.visited[k]].err)
       /\ eng.errs[eng.visited[k]] = 0
       /\ \E j \in 1..(k - 1) : /\ eng.ans[eng.visited[j]].err = "other"
                                /\ eng.errs[eng.visited[j]] = 1

\* the concatenation of the slices of q, in order
RECURSIVE Concat(_)
Concat(q) == IF q = <<>> THEN <<>> ELSE Head(q) \o Concat(Tail(q))

\* C33: when Close has returned, the object handed to ObjectStorage.Put
\* carries the concatenation, in call order, of the slices written since
\* WriteHeader; Close returns the object's id when Put succeeded and an error
\* without identifiers when Put failed.
C33_ClosePutsWrittenPayload ==
  tgt.pc = "closed" =>
    /\ tgt.put.id = tgt.obj.id
    /\ tgt.put.payload = Concat(tgt.writes)
    /\ tgt.err = "nil" => tgt.ids = tgt.obj.id
    /\ tgt.err # "nil" => tgt.ids = NoID

\* the request info of the request in hand was resolved
ACLResolved == acl.in.cid /\ findRequestInfo(acl.in) = "nil"

\* C31: for Get, Head, Search, Delete, GetRange and GetRangeHash the next
\* service was called exactly when the request info was resolved and the
\* basic ACL check and the eACL check of the request passed; a request that
\* failed a check got the access error of that check and no response.
C31_NextOnlyAfterChecks ==
  (acl.pc = "done" /\ acl.op \in CheckedOps) =>
     /\ acl.called <=> (ACLResolved /\ acl.in.basic /\ acl.in.eacl)
     /\ (ACLResolved /\ ~acl.in.basic) => acl.err = "basicACLErr"
     /\ (ACLResolved /\ acl.in.basic /\ ~acl.in.eacl) => acl.err = "eACLErr"
     /\ ~acl.called => (acl.err # "nil" /\ acl.resp = "nil")

\* C31 witness: a GetRangeHash request was resolved and passed the basic ACL
\* check, failed the eACL check and was answered with the eACL error without
\* the next service being called.
C31_Witness ==
  /\ acl.pc = "done" /\ acl.op = "GetRangeHash"
  /\ ACLResolved /\ acl.in.basic /\ ~acl.in.eacl
  /\ acl.in.next = "ok"
  /\ ~acl.called
  /\ acl.err = "eACLErr"

\* C32: a request with a nil body is answered ErrMalformedRequest and not
\* forwarded; a part that is not the init part is forwarded whatever the
\* checks would answer; the init part is forwarded exactly when container
\* id, owner and request info were resolved and the basic ACL, sticky-bit
\* and eACL checks passed, and gets the access error of the check it failed.
C32_PutInitChecked ==
  (acl.pc = "done" /\ acl.op = "PutSend") =>
     /\ acl.in.part = "nilBody" => (~acl.called /\ acl.err = "ErrMalformedRequest")
     /\ acl.in.part = "chunk" => acl.called
     /\ acl.in.part = "init" =>
          /\ acl.called <=> /\ ACLResolved /\ acl.in.owner
                             /\ acl.in.basic /\ acl.in.sticky /\ acl.in.eacl
          /\ (ACLResolved /\ acl.in.owner /\ (~acl.in.basic \/ ~acl.in.sticky)) =>
               acl.err = "basicACLErr"
          /\ (ACLResolved /\ acl.in.owner /\ acl.in.basic /\ acl.in.sticky
                 /\ ~acl.in.eacl) => acl.err = "eACLErr"

\* C32 witness: an init part passed the basic ACL check and would pass the
\* eACL check, failed the sticky-bit check and was not forwarded.
C32_Witness ==
  /\ acl.pc = "done" /\ acl.op = "PutSend"
  /\ acl.in.part = "init"
  /\ ACLResolved /\ acl.in.owner
  /\ acl.in.basic /\ ~acl.in.sticky /\ acl.in.eacl
  /\ ~acl.called
  /\ acl.err = "basicACLErr"

\* C39: when Head returns the eACL error, the response it returns is nil.
C39_HeadDenialHidesResponse ==
  (acl.pc = "done" /\ acl.op = "Head" /\ acl.err = "eACLErr") => acl.resp = "nil"

=============================================================================
